---- MODULE Spec2Model ----
(***************************************************************************)
(* A model of the shrimp NES emulator core: the 6502 CPU interpreter and   *)
(* its bus (src/src/cpu), the PPU register interface and scanline clock    *)
(* (src/src/ppu), the cartridge mapper (src/src/cartridge) and the host    *)
(* loop that alternates cpu.tick and ppu.tick (src/src/nes.rs).            *)
(*                                                                         *)
(* Machine states are records m = [reg, ram, apu, ppu, cart, cycles,       *)
(* panic, oc].  Every operator that models a Rust method takes the machine *)
(* and returns the machine after the call; methods that return a value     *)
(* return [m |-> machine, v |-> value].  A Rust panic (panic!,             *)
(* unreachable!, an index out of range, an arithmetic overflow in a build  *)
(* with overflow checks) sets m.panic and the process stops.               *)
(* Byte arrays that start zeroed are kept as functions from the indices of *)
(* their non-zero cells, read with Peek and written with Poke.             *)
(***************************************************************************)
EXTENDS Integers, Sequences, FiniteSets, TLC

VARIABLES
    reg,              \* CPU registers: [a, x, y, pc, s, p]
    ram,              \* CPU internal RAM, 0x0800 bytes
    apu,              \* CPU APU/IO register bank, 0x18 bytes
    ppu,              \* the PPU's fields
    cart,             \* the cartridge: header and mapper state
    cycles,           \* the CPU's cumulative cycle counter
    panicked,         \* the process has aborted
    overflow_checks,  \* the build panics on integer overflow (debug profile)
    phase,            \* position in the host loop: "cpu" or "ppu"
    resets,           \* number of reset() calls made by the host
    joypad_1,         \* the first controller: buttons and read index
    joypad_2,         \* the second controller
    last              \* the last operation: what ran, and the machine before it

vars == <<reg, ram, apu, ppu, cart, cycles, panicked, overflow_checks, phase,
          resets, joypad_1, joypad_2, last>>

----------------------------------------------------------------------------
(* Bit operations on naturals, as Rust's &, | and ^ on unsigned integers.  *)

RECURSIVE And(_, _)
And(a, b) ==
    IF a = 0 \/ b = 0 THEN 0
    ELSE (a % 2) * (b % 2) + 2 * And(a \div 2, b \div 2)

RECURSIVE Or(_, _)
Or(a, b) ==
    IF a = 0 THEN b
    ELSE IF b = 0 THEN a
    ELSE (IF a % 2 = 1 \/ b % 2 = 1 THEN 1 ELSE 0) + 2 * Or(a \div 2, b \div 2)

RECURSIVE Xor(_, _)
Xor(a, b) ==
    IF a = 0 THEN b
    ELSE IF b = 0 THEN a
    ELSE ((a + b) % 2) + 2 * Xor(a \div 2, b \div 2)

(* Zero-initialised byte arrays.                                           *)
Peek(mem, i) == IF i \in DOMAIN mem THEN mem[i] ELSE 0

Poke(mem, i, val) ==
    IF val = 0 THEN [j \in DOMAIN mem \ {i} |-> mem[j]]
    ELSE [j \in DOMAIN mem \cup {i} |-> IF j = i THEN val ELSE mem[j]]

Zeroed == [j \in {} |-> 0]

(* A call's result, and an aborted machine.                                *)
Ret(m, val) == [m |-> m, v |-> val]

Panic(m) == [m EXCEPT !.panic = TRUE]

(* Sequencing: the rest of a method, K, applied to the result of a call.   *)
Bind(r, K(_)) == K(r)

----------------------------------------------------------------------------
(* Cartridge: the NROM mapper (mapper_000.rs), the MMC1 mapper             *)
(* (mapper_001.rs) and the dispatch on the header's mapper number.  A      *)
(* cartridge is a record of the header's fields, the ROM arrays and, for   *)
(* MMC1, the mapper's registers.  A read that aborts (an index out of      *)
(* range, unimplemented!) yields -1.                                       *)

(* The variant the mirroring property must tell from the code: the upper   *)
(* window is never folded onto the lower one.                              *)
Mapper000_readb_unmirrored(c, addr) ==
    IF addr <= \h1FFF THEN
        IF c.chr_rom_size = 0 THEN 0 ELSE Peek(c.chr_rom, addr)
    ELSE IF addr >= \h6000 /\ addr <= \h7FFF THEN 0
    ELSE IF addr >= \h8000 THEN Peek(c.prg_rom, addr - \h8000)
    ELSE 0

Mapper000_readb(c, addr) ==
    IF addr <= \h1FFF THEN
        IF c.chr_rom_size = 0 THEN 0 ELSE Peek(c.chr_rom, addr)
    ELSE IF addr >= \h6000 /\ addr <= \h7FFF THEN 0
    ELSE IF addr >= \h8000 /\ addr <= \hBFFF THEN Peek(c.prg_rom, addr - \h8000)
    ELSE IF addr >= \hC000 THEN
        Peek(c.prg_rom, IF c.prg_rom_size > 1 THEN And(addr, \h7FFF)
                        ELSE And(addr, \h3FFF))
    ELSE 0

(* writeb is unreachable!(): any write to an NROM cartridge aborts.        *)
Mapper000_writeb(m, addr, val) == Panic(m)

(* MMC1.  prg_rom.len() and chr_rom.len() of an image cut to its header.   *)
Mapper001_prg_len(c) == \h4000 * c.prg_rom_size

Mapper001_chr_len(c) == \h2000 * c.chr_rom_size

Mapper001_new(c) ==
    [mapper |-> c.mapper, prg_rom_size |-> c.prg_rom_size,
     chr_rom_size |-> c.chr_rom_size, prg_rom |-> c.prg_rom,
     chr_rom |-> c.chr_rom,
     shift_register |-> \h10, must_write_register |-> FALSE,
     chr_bank_1 |-> 0, chr_bank_2 |-> 0, prg_bank |-> 0,
     prg_offsets |-> (0 :> 0 @@ 1 :> 0), chr_offsets |-> (0 :> 0 @@ 1 :> 0),
     control |-> 0]

(* -1 where the division by the number of 16 KiB units is a division by 0. *)
Mapper001_prg_offset(c, index) ==
    IF Mapper001_prg_len(c) \div \h4000 = 0 THEN -1
    ELSE (index % (Mapper001_prg_len(c) \div \h4000)) * \h4000

Mapper001_chr_offset(c, index) == 0

Mapper001_update_offsets(m) ==
    LET c == m.cart
        mode == And(c.control, \h0C) \div 4
        prg == CASE mode \in {0, 1} ->
                      (0 :> Mapper001_prg_offset(c, And(c.prg_bank, \h0E))
                       @@ 1 :> Mapper001_prg_offset(
                                   c, And(Or(c.prg_bank, \h01), \h0F)))
                 [] mode = 2 ->
                      (0 :> 0
                       @@ 1 :> Mapper001_prg_offset(c, And(c.prg_bank, \h0F)))
                 [] mode = 3 ->
                      (0 :> Mapper001_prg_offset(c, And(c.prg_bank, \h0F))
                       @@ 1 :> Mapper001_prg_offset(
                                   c, Mapper001_prg_len(c) \div \h4000 - 1))
        chr == IF And(c.control, \h10) = 0
               THEN (0 :> Mapper001_chr_offset(c, And(c.chr_bank_1, \h1E))
                     @@ 1 :> Mapper001_chr_offset(c, Or(c.chr_bank_1, \h01)))
               ELSE (0 :> Mapper001_chr_offset(c, And(c.chr_bank_1, \h1F))
                     @@ 1 :> Mapper001_chr_offset(c, And(c.chr_bank_2, \h1F)))
    IN  IF prg[0] < 0 \/ prg[1] < 0 THEN Panic(m)
        ELSE [m EXCEPT !.cart.prg_offsets = prg, !.cart.chr_offsets = chr]

(* The variant the commit property must tell from the code: the write at   *)
(* which the marker bit is still one place from the bottom is taken for    *)
(* the last of the five.                                                   *)
write_shift_register_early(m, addr, val) ==
    IF val >= \h80 THEN [m EXCEPT !.cart.shift_register = \h10]
    ELSE IF And(m.cart.shift_register, \h02) = \h02
    THEN Mapper001_update_offsets(
             [m EXCEPT !.cart.prg_bank =
                           IF addr >= \hDFFF THEN And(val, \h0F) ELSE @,
                       !.cart.shift_register = \h10])
    ELSE [m EXCEPT !.cart.shift_register =
                       Or(@ \div 2, And(val, \h01) * 16)]

write_shift_register(m, addr, val) ==
    IF val >= \h80 THEN [m EXCEPT !.cart.shift_register = \h10]
    ELSE IF And(m.cart.shift_register, \h01) = \h01
    THEN Mapper001_update_offsets(
             [m EXCEPT !.cart.prg_bank =
                           IF addr >= \hDFFF THEN And(val, \h0F) ELSE @,
                       !.cart.shift_register = \h10])
    ELSE [m EXCEPT !.cart.shift_register =
                       Or(@ \div 2, And(val, \h01) * 16)]

Mapper001_writeb(m, addr, val) ==
    IF addr >= \h8000 THEN write_shift_register(m, addr, val) ELSE m

Mapper001_readb(c, addr) ==
    IF addr <= \h1FFF THEN
        IF c.chr_bank_1 * \h2000 + addr < Mapper001_chr_len(c)
        THEN Peek(c.chr_rom, c.chr_bank_1 * \h2000 + addr)
        ELSE -1
    ELSE IF addr >= \h4020 /\ addr <= \h7FFF THEN 0
    ELSE IF addr >= \h8000 THEN
        IF c.prg_offsets[(addr - \h8000) \div \h4000]
               + ((addr - \h8000) % \h4000) < Mapper001_prg_len(c)
        THEN Peek(c.prg_rom, c.prg_offsets[(addr - \h8000) \div \h4000]
                                 + ((addr - \h8000) % \h4000))
        ELSE -1
    ELSE -1

(* CNROM.  Its prg_rom_size field is the header's count of 16 KiB units,   *)
(* not a count of bytes.                                                   *)
Mapper003_new(c) ==
    [mapper |-> c.mapper, prg_rom_size |-> c.prg_rom_size,
     chr_rom_size |-> c.chr_rom_size, prg_rom |-> c.prg_rom,
     chr_rom |-> c.chr_rom, selected_bank |-> 0]

Mapper003_writeb(m, addr, val) ==
    IF addr >= \h4020 /\ addr <= \h7FFF THEN m
    ELSE IF addr >= \h8000
    THEN [m EXCEPT !.cart.selected_bank = And(addr, \h03)]
    ELSE Panic(m)

(* -1 where the index is past the end of the vector, where the remainder   *)
(* is a remainder by 0, and where the address is unimplemented!().         *)
Mapper003_readb(c, addr) ==
    IF addr <= \h1FFF THEN
        IF c.selected_bank * \h2000 + addr < \h2000 * c.chr_rom_size
        THEN Peek(c.chr_rom, c.selected_bank * \h2000 + addr)
        ELSE -1
    ELSE IF addr >= \h4020 /\ addr <= \h7FFF THEN 0
    ELSE IF addr >= \h8000 THEN
        IF c.prg_rom_size = 0 THEN -1
        ELSE Peek(c.prg_rom, (addr - \h8000) % c.prg_rom_size)
    ELSE -1

Cartridge_read(c, addr) ==
    IF c.mapper = 1 THEN Mapper001_readb(c, addr)
    ELSE IF c.mapper = 3 THEN Mapper003_readb(c, addr)
    ELSE Mapper000_readb(c, addr)

Cartridge_write(m, addr, val) ==
    IF m.cart.mapper = 1 THEN Mapper001_writeb(m, addr, val)
    ELSE IF m.cart.mapper = 3 THEN Mapper003_writeb(m, addr, val)
    ELSE Mapper000_writeb(m, addr, val)

(* A bus read of the cartridge: the byte, or the abort.                    *)
Cartridge_fetch(m, addr) ==
    Bind(Cartridge_read(m.cart, addr), LAMBDA b :
        IF b < 0 THEN Ret(Panic(m), 0) ELSE Ret(m, b))

----------------------------------------------------------------------------
(* PPU: bus and register interface (ppu/mod.rs).                           *)

PPU_new ==
    [ppuctrl |-> \h10, ppumask |-> 0, ppustatus |-> \h10, oamaddr |-> 1,
     ppuscroll |-> 0, ppuaddr |-> 1, address_latch |-> "HI", scanline |-> 0,
     frame_complete |-> FALSE, nametables |-> Zeroed,
     palette_ram_idx |-> Zeroed, oam |-> Zeroed, has_blanked |-> FALSE,
     cycles |-> 0, ppudata_buffer |-> 0]

map_addr(addr) ==
    LET a == addr % \h4000
    IN  IF a >= \h3000 /\ a <= \h3EFF THEN a - \h1000
        ELSE IF a >= \h3F20 /\ a <= \h3FFF THEN ((a - \h3F00) % \h20) + \h3F00
        ELSE a

PPU_readb(m, addr) ==
    LET a == map_addr(addr)
    IN  IF a <= \h1FFF THEN Cartridge_fetch(m, a)
        ELSE IF a <= \h2FFF THEN Ret(m, Peek(m.ppu.nametables, a % \h0400))
        ELSE IF a >= \h3F00 /\ a <= \h3F1F
            THEN Ret(m, Peek(m.ppu.palette_ram_idx, a % \h20))
        ELSE Ret(Panic(m), 0)

PPU_writeb(m, addr, val) ==
    LET a == map_addr(addr)
    IN  IF a <= \h1FFF THEN Cartridge_write(m, a, val)
        ELSE IF a <= \h2FFF
            THEN [m EXCEPT !.ppu.nametables = Poke(@, a % \h0400, val)]
        ELSE IF a >= \h3F00 /\ a <= \h3F1F
            THEN [m EXCEPT !.ppu.palette_ram_idx = Poke(@, a % \h20, val)]
        ELSE Panic(m)

(* An increment of 1 whatever PPUCTRL holds: a variant of incr_ppuaddr     *)
(* that the PPUDATA read property must tell from the code.                 *)
incr_ppuaddr_by_one(m) == [m EXCEPT !.ppu.ppuaddr = (@ + 1) % 65536]

incr_ppuaddr(m) ==
    LET inc == IF And(m.ppu.ppuctrl, \h04) = 0 THEN 1 ELSE 32
    IN  [m EXCEPT !.ppu.ppuaddr = (@ + inc) % 65536]

(* A latch that never toggles: a variant of next that the latch-reset      *)
(* scenario must tell from the code.                                       *)
AddressLatch_stay(l) == l

AddressLatch_next(l) == IF l = "LO" THEN "HI" ELSE "LO"

(* read whose PPUSTATUS arm leaves the write latch as it is.  A variant of *)
(* read that the PPUSTATUS property must tell from the code.               *)
PPU_read_keeps_latch(m, addr) ==
    LET r == And(addr, 7)
        p == m.ppu
    IN  CASE r = 0 -> Ret(m, p.ppuctrl)
          [] r = 1 -> Ret(m, p.ppumask)
          [] r = 2 -> Ret([m EXCEPT !.ppu.ppustatus = And(@, \h7F)],
                          p.ppustatus)
          [] r = 3 -> Ret(Panic(m), 0)
          [] r = 4 -> Ret(m, Peek(p.oam, p.oamaddr))
          [] r = 5 -> Ret(Panic(m), 0)
          [] r = 6 -> Ret(Panic(m), 0)
          [] r = 7 ->
              Bind(PPU_readb(m, p.ppuaddr), LAMBDA rd :
                  IF rd.m.panic THEN rd
                  ELSE IF p.ppuaddr < \h3F00
                  THEN Ret([incr_ppuaddr(rd.m) EXCEPT
                                !.ppu.ppudata_buffer = rd.v],
                           p.ppudata_buffer)
                  ELSE Ret(incr_ppuaddr(rd.m), rd.v))

PPU_read(m, addr) ==
    LET r == And(addr, 7)
        p == m.ppu
    IN  CASE r = 0 -> Ret(m, p.ppuctrl)
          [] r = 1 -> Ret(m, p.ppumask)
          [] r = 2 -> Ret([m EXCEPT !.ppu.ppustatus = And(@, \h7F),
                                    !.ppu.address_latch = "HI"], p.ppustatus)
          [] r = 3 -> Ret(Panic(m), 0)
          [] r = 4 -> Ret(m, Peek(p.oam, p.oamaddr))
          [] r = 5 -> Ret(Panic(m), 0)
          [] r = 6 -> Ret(Panic(m), 0)
          [] r = 7 ->
              Bind(PPU_readb(m, p.ppuaddr), LAMBDA rd :
                  IF rd.m.panic THEN rd
                  ELSE IF p.ppuaddr < \h3F00
                  THEN Ret([incr_ppuaddr(rd.m) EXCEPT
                                !.ppu.ppudata_buffer = rd.v],
                           p.ppudata_buffer)
                  ELSE Ret(incr_ppuaddr(rd.m), rd.v))

PPU_write(m, addr, val) ==
    LET r == And(addr, 7)
        p == m.ppu
    IN  Bind(
          CASE r = 0 -> [m EXCEPT !.ppu.ppuctrl = val]
            [] r = 1 -> [m EXCEPT !.ppu.ppumask = val]
            [] r = 2 -> m
            [] r = 3 -> [m EXCEPT !.ppu.oamaddr = val]
            [] r = 4 -> [m EXCEPT !.ppu.oam = Poke(@, p.oamaddr, val),
                                  !.ppu.oamaddr = (@ + 1) % 256]
            [] r = 5 ->
                [m EXCEPT !.ppu.ppuscroll =
                              IF p.address_latch = "HI"
                              THEN Or(And(@, \h00FF), val * 256)
                              ELSE Or(And(@, \hFF00), val),
                          !.ppu.address_latch = AddressLatch_next(@)]
            [] r = 6 ->
                [m EXCEPT !.ppu.ppuaddr =
                              IF p.address_latch = "HI"
                              THEN Or(And(@, \h00FF), val * 256)
                              ELSE Or(And(@, \hFF00), val),
                          !.ppu.address_latch = AddressLatch_next(@)]
            [] r = 7 -> incr_ppuaddr(PPU_writeb(m, p.ppuaddr, val)),
          LAMBDA m1 :
              IF m1.panic THEN Panic(m)
              ELSE IF r \in {0, 1, 2, 5, 6, 7}
              THEN [m1 EXCEPT !.ppu.ppustatus =
                                  Or(And(@, \hE0), And(\h1F, val))]
              ELSE m1)

----------------------------------------------------------------------------
(* CPU: registers and flags (cpu/register.rs).                             *)

Flag_N == \h80
Flag_V == \h40
Flag_B == \h10
Flag_D == \h08
Flag_I == \h04
Flag_Z == \h02
Flag_C == \h01

Registers_default == [a |-> 0, x |-> 0, y |-> 0, pc |-> 0, s |-> \hFD, p |-> 0]

set_flag(m, flag, val) ==
    [m EXCEPT !.reg.p = IF val THEN Or(@, flag) ELSE And(@, 255 - flag)]

get_flag(m, flag) == And(m.reg.p, flag) > 0

(* An integer operation of Rust that leaves 0 .. lim-1: a panic where the  *)
(* build checks overflow; the callers wrap the value modulo lim.           *)
Overflow(m, x, lim) == IF m.oc /\ (x < 0 \/ x >= lim) THEN Panic(m) ELSE m

----------------------------------------------------------------------------
(* CPU: bus (cpu/mod.rs).                                                  *)

NMI_VECTOR == \hFFFA
RESET_VECTOR == \hFFFC
BRK_VECTOR == \hFFFE

(* readb without the RAM mirror: the index is the address itself.  A       *)
(* variant of readb that the mirroring property must tell from the code.   *)
CPU_readb_unmirrored(m, addr) ==
    IF addr <= \h1FFF THEN Ret(m, Peek(m.ram, addr))
    ELSE IF addr <= \h3FFF THEN PPU_read(m, addr % 8)
    ELSE IF addr <= \h4017 THEN Ret(m, Peek(m.apu, addr % \h18))
    ELSE IF addr <= \h401F THEN Ret(m, 0)
    ELSE Cartridge_fetch(m, addr)

CPU_readb(m, addr) ==
    IF addr <= \h1FFF THEN Ret(m, Peek(m.ram, addr % \h0800))
    ELSE IF addr <= \h3FFF THEN PPU_read(m, addr % 8)
    ELSE IF addr <= \h4017 THEN Ret(m, Peek(m.apu, addr % \h18))
    ELSE IF addr <= \h401F THEN Ret(m, 0)
    ELSE Cartridge_fetch(m, addr)

(* writeb with the PPU's registers at 0x2000-0x2007 only and nothing       *)
(* behind the rest of 0x2000-0x3FFF.  A variant of writeb that the         *)
(* register-mirroring property must tell from the code.                    *)
CPU_writeb_unmirrored(m, addr, val) ==
    IF addr <= \h1FFF THEN [m EXCEPT !.ram = Poke(@, addr % \h0800, val)]
    ELSE IF addr <= \h2007 THEN PPU_write(m, addr % 8, val)
    ELSE IF addr <= \h3FFF THEN m
    ELSE IF addr <= \h4017 THEN [m EXCEPT !.apu = Poke(@, addr % \h18, val)]
    ELSE IF addr <= \h401F THEN m
    ELSE IF addr >= \h6000 /\ addr <= \h7FFF THEN m
    ELSE Cartridge_write(m, addr, val)

CPU_writeb(m, addr, val) ==
    IF addr <= \h1FFF THEN [m EXCEPT !.ram = Poke(@, addr % \h0800, val)]
    ELSE IF addr <= \h3FFF THEN PPU_write(m, addr % 8, val)
    ELSE IF addr <= \h4017 THEN [m EXCEPT !.apu = Poke(@, addr % \h18, val)]
    ELSE IF addr <= \h401F THEN m
    ELSE IF addr >= \h6000 /\ addr <= \h7FFF THEN m
    ELSE Cartridge_write(m, addr, val)

readw(m, addr) ==
    Bind(CPU_readb(m, addr), LAMBDA lo :
    Bind(CPU_readb(lo.m, (addr + 1) % 65536), LAMBDA hi :
        Ret(hi.m, hi.v * 256 + lo.v)))

readw_zp(m, addr) ==
    Bind(CPU_readb(m, addr), LAMBDA lo :
    Bind(CPU_readb(Overflow(lo.m, addr + 1, 256), (addr + 1) % 256),
         LAMBDA hi :
        Ret(hi.m, Or(lo.v, hi.v * 256))))

loadb_bump(m) ==
    Bind(CPU_readb(m, m.reg.pc), LAMBDA r :
        Ret([Overflow(r.m, r.m.reg.pc + 1, 65536) EXCEPT
                 !.reg.pc = (@ + 1) % 65536], r.v))

loadw_bump(m) ==
    Bind(loadb_bump(m), LAMBDA lo :
    Bind(loadb_bump(lo.m), LAMBDA hi :
        Ret(hi.m, Or(hi.v * 256, lo.v))))

set_zn(m, res) ==
    set_flag(set_flag(m, Flag_Z, res = 0), Flag_N, And(res, \h80) = \h80)

(* The variant the B-flag property must tell from the code: every bit of   *)
(* P is taken from the value.                                              *)
set_p_all(m, val) == [m EXCEPT !.reg.p = val]

set_p(m, val) ==
    [m EXCEPT !.reg.p = Or(And(val, \hCF), And(@, \h30))]

----------------------------------------------------------------------------
(* CPU: the stack.                                                         *)

popb(m) ==
    LET m1 == [m EXCEPT !.reg.s = (@ + 1) % 256]
    IN  CPU_readb(m1, Or(\h100, m1.reg.s))

popw(m) ==
    Bind(popb(m), LAMBDA lo :
    Bind(popb(lo.m), LAMBDA hi :
        Ret(hi.m, Or(hi.v * 256, lo.v))))

(* A push that moves S before the store: a variant of pushb that the stack *)
(* properties must tell from the code.                                     *)
pushb_predecrement(m, val) ==
    CPU_writeb([m EXCEPT !.reg.s = (@ + 255) % 256],
               Or(\h100, (m.reg.s + 255) % 256), val)

pushb(m, val) ==
    LET m1 == CPU_writeb(m, Or(\h100, m.reg.s), val)
    IN  [m1 EXCEPT !.reg.s = (@ + 255) % 256]

pushw(m, val) ==
    pushb(pushb(m, val \div 256), And(val, \hFF))

----------------------------------------------------------------------------
(* CPU: addressing modes (cpu/addressing_mode.rs).                         *)

(* A byte read as i8 and added to a u16, wrapping.                         *)
Rel(pc, offset) ==
    (pc + (IF offset >= 128 THEN offset - 256 ELSE offset) + 65536) % 65536

(* A debump that leaves the program counter where load left it: a variant *)
(* that the read-modify-write property must tell from the code.            *)
debump_none(m, am) == m

debump(m, am) ==
    CASE am \in {"Implied", "Accumulator"} -> m
      [] am \in {"Absolute", "AbsoluteX", "AbsoluteY", "Indirect"} ->
            [m EXCEPT !.reg.pc = (@ + 65534) % 65536]
      [] OTHER -> [m EXCEPT !.reg.pc = (@ + 65535) % 65536]

(* The operand's effective address, as load and store both compute it     *)
(* before the access: the operand bytes are consumed from PC.             *)
EffectiveAddress(m, am) ==
    IF am \in {"Absolute", "AbsoluteX", "AbsoluteY", "Indirect"}
    THEN Bind(loadw_bump(m), LAMBDA o :
           CASE am = "Absolute" -> o
             [] am = "AbsoluteX" -> Ret(o.m, (o.v + o.m.reg.x) % 65536)
             [] am = "AbsoluteY" -> Ret(o.m, (o.v + o.m.reg.y) % 65536)
             [] am = "Indirect" -> readw(o.m, o.v))
    ELSE Bind(loadb_bump(m), LAMBDA o :
           CASE am = "Relative" -> Ret(o.m, Rel(o.m.reg.pc, o.v))
             [] am = "ZeroPage" -> o
             [] am = "ZeroPageX" -> Ret(o.m, (o.v + o.m.reg.x) % 256)
             [] am = "ZeroPageY" -> Ret(o.m, (o.v + o.m.reg.y) % 256)
             [] am = "IndirectX" -> readw_zp(o.m, (o.v + o.m.reg.x) % 256)
             [] am = "IndirectY" ->
                   Bind(readw_zp(o.m, o.v), LAMBDA w :
                       Ret(w.m, (w.v + w.m.reg.y) % 65536)))

load(m, am) ==
    CASE am = "Implied" -> Ret(Panic(m), 0)
      [] am = "Accumulator" -> Ret(m, m.reg.a)
      [] am = "Immediate" -> loadb_bump(m)
      [] OTHER -> Bind(EffectiveAddress(m, am), LAMBDA e :
                       CPU_readb(e.m, e.v))

store(m, am, val) ==
    CASE am = "Implied" -> Panic(m)
      [] am = "Accumulator" -> [m EXCEPT !.reg.a = val]
      [] am = "Immediate" -> Panic(m)
      [] OTHER -> Bind(EffectiveAddress(m, am), LAMBDA e :
                       CPU_writeb(e.m, e.v, val))

----------------------------------------------------------------------------
(* CPU: opcode handlers (cpu/mod.rs).  Each returns its cycle count.       *)

ReadCycles(am) ==
    CASE am = "Immediate" -> 2
      [] am = "ZeroPage" -> 3
      [] am \in {"ZeroPageX", "ZeroPageY", "Absolute", "AbsoluteX",
                 "AbsoluteY"} -> 4
      [] am = "IndirectX" -> 6
      [] am = "IndirectY" -> 5

adc(m, am) ==
    Bind(load(m, am), LAMBDA l :
        LET mem == l.v
            acc == l.m.reg.a
            sum == mem + acc
            res == sum % 256
            m1 == set_flag(l.m, Flag_C, sum > \hFF)
            m2 == set_flag(m1, Flag_V,
                           And(Xor(acc, mem), \h80) = 0
                           /\ And(Xor(acc, res), \h80) = \h80)
            m3 == set_zn(m2, res)
        IN  Ret([m3 EXCEPT !.reg.a = res], ReadCycles(am)))

(* SBC with the carry as the borrow itself, not its inverse: a variant of  *)
(* sbc that the SBC properties must tell from the code.                    *)
sbc_carry_is_borrow(m, am) ==
    Bind(load(m, am), LAMBDA l :
        LET mem == l.v
            acc == l.m.reg.a
            c == IF get_flag(l.m, Flag_C) THEN 0 ELSE 1
            dif == (acc - mem - c + 65536) % 65536
            res == dif % 256
            m1 == set_flag(l.m, Flag_C, And(dif, \h100) # 0)
            m2 == set_flag(m1, Flag_V,
                           And(Xor(acc, res), \h80) # 0
                           /\ And(Xor(acc, mem), \h80) = \h80)
            m3 == set_zn(m2, res)
        IN  Ret([m3 EXCEPT !.reg.a = res], ReadCycles(am)))

sbc(m, am) ==
    Bind(load(m, am), LAMBDA l :
        LET mem == l.v
            acc == l.m.reg.a
            c == IF get_flag(l.m, Flag_C) THEN 0 ELSE 1
            dif == (acc - mem - c + 65536) % 65536
            res == dif % 256
            m1 == set_flag(l.m, Flag_C, And(dif, \h100) = 0)
            m2 == set_flag(m1, Flag_V,
                           And(Xor(acc, res), \h80) # 0
                           /\ And(Xor(acc, mem), \h80) = \h80)
            m3 == set_zn(m2, res)
        IN  Ret([m3 EXCEPT !.reg.a = res], ReadCycles(am)))

brk(m, am) ==
    Bind(pushw(Overflow(m, m.reg.pc + 1, 65536), (m.reg.pc + 1) % 65536),
         LAMBDA m1 :
    Bind(readw(set_flag(pushb(m1, m1.reg.p), Flag_I, TRUE), BRK_VECTOR),
         LAMBDA v :
        Ret([v.m EXCEPT !.reg.pc = v.v], 7)))

jmp(m, am) ==
    Bind(loadw_bump(m), LAMBDA o :
        IF am = "Absolute" THEN Ret([o.m EXCEPT !.reg.pc = o.v], 3)
        ELSE
          Bind(CPU_readb(o.m, o.v), LAMBDA lo :
          Bind(CPU_readb(Overflow(lo.m, o.v + 1, 65536),
                         Or(And(o.v, \hFF00),
                            And((o.v + 1) % 65536, \h00FF))),
               LAMBDA hi :
              Ret([hi.m EXCEPT !.reg.pc = Or(hi.v * 256, lo.v)], 5))))

jsr(m, am) ==
    Bind(loadw_bump(m), LAMBDA o :
        Ret([pushw(Overflow(o.m, o.m.reg.pc - 1, 65536),
                   (o.m.reg.pc + 65535) % 65536)
                 EXCEPT !.reg.pc = o.v], 6))

(* RTS that resumes at the popped word itself: a variant of rts that the   *)
(* call/return property must tell from the code.                           *)
rts_no_increment(m, am) ==
    Bind(popw(m), LAMBDA w : Ret([w.m EXCEPT !.reg.pc = w.v], 6))

rts(m, am) ==
    Bind(popw(m), LAMBDA w :
        Ret([Overflow(w.m, w.v + 1, 65536) EXCEPT
                 !.reg.pc = (w.v + 1) % 65536], 6))

rti(m, am) ==
    Bind(popb(m), LAMBDA sr :
    Bind(popw(set_p(sr.m, sr.v)), LAMBDA w :
        Ret([w.m EXCEPT !.reg.pc = w.v], 6)))

lda(m, am) ==
    Bind(load(m, am), LAMBDA l :
        Ret(set_zn([l.m EXCEPT !.reg.a = l.v], l.v), ReadCycles(am)))

ldx(m, am) ==
    Bind(load(m, am), LAMBDA l :
        Ret(set_zn([l.m EXCEPT !.reg.x = l.v], l.v), ReadCycles(am)))

sta(m, am) ==
    Ret(store(m, am, m.reg.a),
        CASE am = "ZeroPage" -> 3
          [] am \in {"ZeroPageX", "Absolute"} -> 4
          [] am \in {"AbsoluteX", "AbsoluteY"} -> 5
          [] am \in {"IndirectX", "IndirectY"} -> 6)

ldy(m, am) ==
    Bind(load(m, am), LAMBDA l :
        Ret(set_zn([l.m EXCEPT !.reg.y = l.v], l.v), ReadCycles(am)))

sty(m, am) ==
    Ret(store(m, am, m.reg.y),
        CASE am = "ZeroPage" -> 2
          [] am \in {"ZeroPageX", "Absolute"} -> 4)

(* compare: x - y sets Z and N from the low byte of the difference and C   *)
(* when x >= y.                                                            *)
compare(m, x, y) ==
    set_flag(set_zn(m, (x - y + 256) % 256), Flag_C, x >= y)

cmp(m, am) ==
    Bind(load(m, am), LAMBDA l :
        Ret(compare(l.m, l.m.reg.a, l.v),
            CASE am = "Immediate" -> 2
              [] am = "ZeroPage" -> 3
              [] am \in {"ZeroPageX", "Absolute", "AbsoluteX",
                         "AbsoluteY"} -> 4
              [] am = "IndirectX" -> 6
              [] am = "IndirectY" -> 7))

(* The read-modify-write handlers: load, debump, store to the same         *)
(* operand, then the flags.                                                *)
RmwCycles(am) ==
    CASE am = "Accumulator" -> 2
      [] am = "ZeroPage" -> 5
      [] am \in {"ZeroPageX", "Absolute"} -> 6
      [] am = "AbsoluteX" -> 7

asl(m, am) ==
    Bind(load(m, am), LAMBDA l :
        LET res == l.v * 2
            st == store(debump(l.m, am), am, res % 256)
        IN  Ret(set_zn(set_flag(st, Flag_C, res > \hFF), res % 256),
                RmwCycles(am)))

lsr(m, am) ==
    Bind(load(m, am), LAMBDA l :
        LET res == l.v \div 2
            st == store(debump(l.m, am), am, res)
        IN  Ret(set_zn(set_flag(st, Flag_C, And(l.v, \h01) = \h01), res),
                RmwCycles(am)))

rol(m, am) ==
    Bind(load(m, am), LAMBDA l :
        LET c == IF get_flag(l.m, Flag_C) THEN \h01 ELSE \h00
            res == Or((l.v * 2) % 256, c)
            st == store(debump(l.m, am), am, res)
        IN  Ret(set_zn(set_flag(st, Flag_C, And(l.v, \h80) = \h80), res),
                RmwCycles(am)))

ror(m, am) ==
    Bind(load(m, am), LAMBDA l :
        LET c == IF get_flag(l.m, Flag_C) THEN \h80 ELSE \h00
            res == Or(l.v \div 2, c)
            st == store(debump(l.m, am), am, res)
        IN  Ret(set_zn(set_flag(st, Flag_C, And(l.v, \h01) = \h01), res),
                RmwCycles(am)))

inc(m, am) ==
    Bind(load(m, am), LAMBDA l :
        LET res == (l.v + 1) % 256
        IN  Ret(set_zn(store(debump(l.m, am), am, res), res),
                RmwCycles(am)))

dec(m, am) ==
    Bind(load(m, am), LAMBDA l :
        LET res == (l.v + 255) % 256
        IN  Ret(set_zn(store(debump(l.m, am), am, res), res),
                RmwCycles(am)))

pha(m, am) == Ret(pushb(m, m.reg.a), 3)

php(m, am) == Ret(pushb(m, Or(m.reg.p, \h30)), 3)

pla(m, am) ==
    Bind(popb(m), LAMBDA r :
        Ret(set_zn([r.m EXCEPT !.reg.a = r.v], r.v), 4))

plp(m, am) ==
    Bind(popb(m), LAMBDA r : Ret(set_p(r.m, r.v), 4))

txs(m, am) == Ret(set_zn([m EXCEPT !.reg.s = m.reg.x], m.reg.x), 2)

(* CLC, CLD, CLI, CLV, SEC, SED, SEI: one set_flag call each.              *)
flag_op(m, flag, val) == Ret(set_flag(m, flag, val), 2)

nop(m, am) == Ret(m, 2)

----------------------------------------------------------------------------
(* CPU: reset, decode and tick (cpu/mod.rs).                               *)

reset(m) ==
    Bind(readw(m, RESET_VECTOR), LAMBDA v :
        [v.m EXCEPT !.reg.pc = v.v, !.reg.p = \h24])

(* The opcode table of CPU::tick: opcode -> <<handler, addressing mode>>.  *)
Decode(opcode) ==
    CASE opcode = \h69 -> <<"adc", "Immediate">>
      [] opcode = \h65 -> <<"adc", "ZeroPage">>
      [] opcode = \h75 -> <<"adc", "ZeroPageX">>
      [] opcode = \h6D -> <<"adc", "Absolute">>
      [] opcode = \h7D -> <<"adc", "AbsoluteX">>
      [] opcode = \h79 -> <<"adc", "AbsoluteY">>
      [] opcode = \h61 -> <<"adc", "IndirectX">>
      [] opcode = \h71 -> <<"adc", "IndirectY">>
      [] opcode = \h29 -> <<"and", "Immediate">>
      [] opcode = \h25 -> <<"and", "ZeroPage">>
      [] opcode = \h35 -> <<"and", "ZeroPageX">>
      [] opcode = \h2D -> <<"and", "Absolute">>
      [] opcode = \h3D -> <<"and", "AbsoluteX">>
      [] opcode = \h39 -> <<"and", "AbsoluteY">>
      [] opcode = \h21 -> <<"and", "IndirectX">>
      [] opcode = \h31 -> <<"and", "IndirectY">>
      [] opcode = \h0A -> <<"asl", "Accumulator">>
      [] opcode = \h06 -> <<"asl", "ZeroPage">>
      [] opcode = \h16 -> <<"asl", "ZeroPageX">>
      [] opcode = \h0E -> <<"asl", "Absolute">>
      [] opcode = \h1E -> <<"asl", "AbsoluteX">>
      [] opcode = \h24 -> <<"bit", "ZeroPage">>
      [] opcode = \h2C -> <<"bit", "Absolute">>
      [] opcode = \h90 -> <<"bcc", "Relative">>
      [] opcode = \hB0 -> <<"bcs", "Relative">>
      [] opcode = \hF0 -> <<"beq", "Relative">>
      [] opcode = \h30 -> <<"bmi", "Relative">>
      [] opcode = \hD0 -> <<"bne", "Relative">>
      [] opcode = \h10 -> <<"bpl", "Relative">>
      [] opcode = \h00 -> <<"brk", "Implied">>
      [] opcode = \h50 -> <<"bvc", "Relative">>
      [] opcode = \h70 -> <<"bvs", "Relative">>
      [] opcode = \h18 -> <<"clc", "Implied">>
      [] opcode = \hD8 -> <<"cld", "Implied">>
      [] opcode = \h58 -> <<"cli", "Implied">>
      [] opcode = \hB8 -> <<"clv", "Implied">>
      [] opcode = \hC9 -> <<"cmp", "Immediate">>
      [] opcode = \hC5 -> <<"cmp", "ZeroPage">>
      [] opcode = \hD5 -> <<"cmp", "ZeroPageX">>
      [] opcode = \hCD -> <<"cmp", "Absolute">>
      [] opcode = \hDD -> <<"cmp", "AbsoluteX">>
      [] opcode = \hD9 -> <<"cmp", "AbsoluteY">>
      [] opcode = \hC1 -> <<"cmp", "IndirectX">>
      [] opcode = \hD1 -> <<"cmp", "IndirectY">>
      [] opcode = \hE0 -> <<"cpx", "Immediate">>
      [] opcode = \hE4 -> <<"cpx", "ZeroPage">>
      [] opcode = \hEC -> <<"cpx", "Absolute">>
      [] opcode = \hC0 -> <<"cpy", "Immediate">>
      [] opcode = \hC4 -> <<"cpy", "ZeroPage">>
      [] opcode = \hCC -> <<"cpy", "Absolute">>
      [] opcode = \hC6 -> <<"dec", "ZeroPage">>
      [] opcode = \hD6 -> <<"dec", "ZeroPageX">>
      [] opcode = \hCE -> <<"dec", "Absolute">>
      [] opcode = \hDE -> <<"dec", "AbsoluteX">>
      [] opcode = \hCA -> <<"dex", "Implied">>
      [] opcode = \h88 -> <<"dey", "Implied">>
      [] opcode = \h49 -> <<"eor", "Immediate">>
      [] opcode = \h45 -> <<"eor", "ZeroPage">>
      [] opcode = \h55 -> <<"eor", "ZeroPageX">>
      [] opcode = \h4D -> <<"eor", "Absolute">>
      [] opcode = \h5D -> <<"eor", "AbsoluteX">>
      [] opcode = \h59 -> <<"eor", "AbsoluteY">>
      [] opcode = \h41 -> <<"eor", "IndirectX">>
      [] opcode = \h51 -> <<"eor", "IndirectY">>
      [] opcode = \hE6 -> <<"inc", "ZeroPage">>
      [] opcode = \hF6 -> <<"inc", "ZeroPageX">>
      [] opcode = \hEE -> <<"inc", "Absolute">>
      [] opcode = \hFE -> <<"inc", "AbsoluteX">>
      [] opcode = \hE8 -> <<"inx", "Implied">>
      [] opcode = \hC8 -> <<"iny", "Implied">>
      [] opcode = \h4C -> <<"jmp", "Absolute">>
      [] opcode = \h6C -> <<"jmp", "Indirect">>
      [] opcode = \h20 -> <<"jsr", "Absolute">>
      [] opcode = \hA9 -> <<"lda", "Immediate">>
      [] opcode = \hA5 -> <<"lda", "ZeroPage">>
      [] opcode = \hB5 -> <<"lda", "ZeroPageX">>
      [] opcode = \hAD -> <<"lda", "Absolute">>
      [] opcode = \hBD -> <<"lda", "AbsoluteX">>
      [] opcode = \hB9 -> <<"lda", "AbsoluteY">>
      [] opcode = \hA1 -> <<"lda", "IndirectX">>
      [] opcode = \hB1 -> <<"lda", "IndirectY">>
      [] opcode = \hA2 -> <<"ldx", "Immediate">>
      [] opcode = \hA6 -> <<"ldx", "ZeroPage">>
      [] opcode = \hB6 -> <<"ldx", "ZeroPageY">>
      [] opcode = \hAE -> <<"ldx", "Absolute">>
      [] opcode = \hBE -> <<"ldx", "AbsoluteY">>
      [] opcode = \hA0 -> <<"ldy", "Immediate">>
      [] opcode = \hA4 -> <<"ldy", "ZeroPage">>
      [] opcode = \hB4 -> <<"ldy", "ZeroPageX">>
      [] opcode = \hAC -> <<"ldy", "Absolute">>
      [] opcode = \hBC -> <<"ldy", "AbsoluteX">>
      [] opcode = \h4A -> <<"lsr", "Accumulator">>
      [] opcode = \h46 -> <<"lsr", "ZeroPage">>
      [] opcode = \h56 -> <<"lsr", "ZeroPageX">>
      [] opcode = \h4E -> <<"lsr", "Absolute">>
      [] opcode = \h5E -> <<"lsr", "AbsoluteX">>
      [] opcode = \hEA -> <<"nop", "Implied">>
      [] opcode = \h09 -> <<"ora", "Immediate">>
      [] opcode = \h05 -> <<"ora", "ZeroPage">>
      [] opcode = \h15 -> <<"ora", "ZeroPageX">>
      [] opcode = \h0D -> <<"ora", "Absolute">>
      [] opcode = \h1D -> <<"ora", "AbsoluteX">>
      [] opcode = \h19 -> <<"ora", "AbsoluteY">>
      [] opcode = \h01 -> <<"ora", "IndirectX">>
      [] opcode = \h11 -> <<"ora", "IndirectY">>
      [] opcode = \h48 -> <<"pha", "Implied">>
      [] opcode = \h08 -> <<"php", "Implied">>
      [] opcode = \h68 -> <<"pla", "Implied">>
      [] opcode = \h28 -> <<"plp", "Implied">>
      [] opcode = \h2A -> <<"rol", "Accumulator">>
      [] opcode = \h26 -> <<"rol", "ZeroPage">>
      [] opcode = \h36 -> <<"rol", "ZeroPageX">>
      [] opcode = \h2E -> <<"rol", "Absolute">>
      [] opcode = \h3E -> <<"rol", "AbsoluteX">>
      [] opcode = \h6A -> <<"ror", "Accumulator">>
      [] opcode = \h66 -> <<"ror", "ZeroPage">>
      [] opcode = \h76 -> <<"ror", "ZeroPageX">>
      [] opcode = \h6E -> <<"ror", "Absolute">>
      [] opcode = \h7E -> <<"ror", "AbsoluteX">>
      [] opcode = \h40 -> <<"rti", "Implied">>
      [] opcode = \h60 -> <<"rts", "Implied">>
      [] opcode = \hE9 -> <<"sbc", "Immediate">>
      [] opcode = \hE5 -> <<"sbc", "ZeroPage">>
      [] opcode = \hF5 -> <<"sbc", "ZeroPageX">>
      [] opcode = \hED -> <<"sbc", "Absolute">>
      [] opcode = \hFD -> <<"sbc", "AbsoluteX">>
      [] opcode = \hF9 -> <<"sbc", "AbsoluteY">>
      [] opcode = \hE1 -> <<"sbc", "IndirectX">>
      [] opcode = \hF1 -> <<"sbc", "IndirectY">>
      [] opcode = \h38 -> <<"sec", "Implied">>
      [] opcode = \hF8 -> <<"sed", "Implied">>
      [] opcode = \h78 -> <<"sei", "Implied">>
      [] opcode = \h85 -> <<"sta", "ZeroPage">>
      [] opcode = \h95 -> <<"sta", "ZeroPageX">>
      [] opcode = \h8D -> <<"sta", "Absolute">>
      [] opcode = \h9D -> <<"sta", "AbsoluteX">>
      [] opcode = \h99 -> <<"sta", "AbsoluteY">>
      [] opcode = \h81 -> <<"sta", "IndirectX">>
      [] opcode = \h91 -> <<"sta", "IndirectY">>
      [] opcode = \h86 -> <<"stx", "ZeroPage">>
      [] opcode = \h96 -> <<"stx", "ZeroPageY">>
      [] opcode = \h8E -> <<"stx", "Absolute">>
      [] opcode = \h84 -> <<"sty", "ZeroPage">>
      [] opcode = \h94 -> <<"sty", "ZeroPageX">>
      [] opcode = \h8C -> <<"sty", "Absolute">>
      [] opcode = \hAA -> <<"tax", "Implied">>
      [] opcode = \hA8 -> <<"tay", "Implied">>
      [] opcode = \hBA -> <<"tsx", "Implied">>
      [] opcode = \h8A -> <<"txa", "Implied">>
      [] opcode = \h9A -> <<"txs", "Implied">>
      [] opcode = \h98 -> <<"tya", "Implied">>
      [] OTHER -> <<"panic", "Implied">>

(* The handlers modelled so far; tick is explored on these.                *)
Modelled ==
    {"adc", "sbc", "brk", "jmp", "jsr", "rts", "rti", "lda", "ldx", "sta",
     "pha", "php", "pla", "plp", "txs", "clc", "cld", "cli", "clv", "sec",
     "sed", "sei", "nop", "panic", "ldy", "sty", "cmp", "asl", "lsr", "rol",
     "ror", "inc", "dec"}

Execute(m, d) ==
    LET mn == d[1]
        am == d[2]
    IN  CASE mn = "adc" -> adc(m, am)
          [] mn = "sbc" -> sbc(m, am)
          [] mn = "brk" -> brk(m, am)
          [] mn = "jmp" -> jmp(m, am)
          [] mn = "jsr" -> jsr(m, am)
          [] mn = "rts" -> rts(m, am)
          [] mn = "rti" -> rti(m, am)
          [] mn = "lda" -> lda(m, am)
          [] mn = "ldx" -> ldx(m, am)
          [] mn = "sta" -> sta(m, am)
          [] mn = "pha" -> pha(m, am)
          [] mn = "php" -> php(m, am)
          [] mn = "pla" -> pla(m, am)
          [] mn = "plp" -> plp(m, am)
          [] mn = "txs" -> txs(m, am)
          [] mn = "clc" -> flag_op(m, Flag_C, FALSE)
          [] mn = "cld" -> flag_op(m, Flag_D, FALSE)
          [] mn = "cli" -> flag_op(m, Flag_I, FALSE)
          [] mn = "clv" -> flag_op(m, Flag_V, FALSE)
          [] mn = "sec" -> flag_op(m, Flag_C, TRUE)
          [] mn = "sed" -> flag_op(m, Flag_D, TRUE)
          [] mn = "sei" -> flag_op(m, Flag_I, TRUE)
          [] mn = "nop" -> nop(m, am)
          [] mn = "ldy" -> ldy(m, am)
          [] mn = "sty" -> sty(m, am)
          [] mn = "cmp" -> cmp(m, am)
          [] mn = "asl" -> asl(m, am)
          [] mn = "lsr" -> lsr(m, am)
          [] mn = "rol" -> rol(m, am)
          [] mn = "ror" -> ror(m, am)
          [] mn = "inc" -> inc(m, am)
          [] mn = "dec" -> dec(m, am)
          [] OTHER -> Ret(Panic(m), 0)

tick(m) ==
    Bind(loadb_bump(m), LAMBDA f : Execute(f.m, Decode(f.v)))

(* The CPU revision that ppu/mod.rs and nes.rs use keeps a cumulative      *)
(* cycle counter (cpu.cycles) and an NMI entry (cpu.nmi); neither is in    *)
(* cpu/mod.rs.  They are modelled from the specification: tick adds the    *)
(* instruction's cycle count, nmi pushes PC and P and loads the vector.    *)
tick_cycles(m) ==
    Bind(tick(m), LAMBDA r : [r.m EXCEPT !.cycles = @ + r.v])

nmi(m) ==
    Bind(pushw(m, m.reg.pc), LAMBDA m1 :
    Bind(readw(set_flag(pushb(m1, m1.reg.p), Flag_I, TRUE), NMI_VECTOR),
         LAMBDA v :
        [v.m EXCEPT !.reg.pc = v.v]))

----------------------------------------------------------------------------
(* PPU: scanline clock and sprite evaluation (ppu/mod.rs).  The pixel      *)
(* buffer `screen` is an output nothing in the core reads back; it is not  *)
(* kept, and the background pixel, which only decides a colour, with it.   *)

VBLANK_SCANLINE == 241
LAST_SCANLINE == 261
SCREEN_HEIGHT == 240
SCREEN_WIDTH == 256
CYCLES_PER_SCANLINE == 114

(* set_vblank that sets bit 7 whatever it is asked: a variant that the     *)
(* VBlank-window property must tell from the code.                         *)
set_vblank_sets(m, val) ==
    [m EXCEPT !.ppu.has_blanked = TRUE, !.ppu.ppustatus = Or(@, \h80)]

(* set_vblank that clears bit 7 whatever it is asked: a variant that the   *)
(* VBlank property must tell from the code.                                *)
set_vblank_clears(m, val) ==
    [m EXCEPT !.ppu.has_blanked = TRUE, !.ppu.ppustatus = And(@, \h7F)]

set_vblank(m, val) ==
    [m EXCEPT !.ppu.has_blanked = TRUE,
              !.ppu.ppustatus = IF val THEN Or(@, \h80) ELSE And(@, \h7F)]

(* NMI enable read from bit 6 of PPUCTRL: a variant of vblank_nmi that the *)
(* NMI property must tell from the code.                                   *)
vblank_nmi_bit6(m) == And(m.ppu.ppuctrl, \h40) # 0

vblank_nmi(m) == And(m.ppu.ppuctrl, \h80) # 0

set_sprite_overflow(m, val) ==
    [m EXCEPT !.ppu.ppustatus = IF val THEN Or(@, \h40) ELSE And(@, \hBF)]

set_sprite_zero_hit(m) == [m EXCEPT !.ppu.ppustatus = Or(@, \h40)]

foreground_offset(m) == IF And(m.ppu.ppuctrl, \h08) = 0 THEN 0 ELSE \h1000

background_offset(m) == IF And(m.ppu.ppuctrl, \h10) = 0 THEN 0 ELSE \h1000

render_background(m) == And(m.ppu.ppumask, \h08) > 0

render_background_leftmost(m) == And(m.ppu.ppumask, \h02) > 0

base_nametable(m) == \h2000 + \h0400 * And(m.ppu.ppuctrl, \h03)

(* The address of the nametable byte for the i-th tile of the scanline,    *)
(* and the two pattern planes of that tile's row, as out[2 i] and          *)
(* out[2 i + 1] hold them.                                                 *)
TileIndexAddress(m, i) ==
    base_nametable(m) + (i % 32) + ((m.ppu.scanline \div 8) % 32) * 32

get_scanline_background_pixels(m) ==
    [j \in 0 .. 63 |->
        LET tile == PPU_readb(m, TileIndexAddress(m, j \div 2)).v
            chr_address == 16 * tile + (m.ppu.scanline % 8)
                           + background_offset(m)
        IN  Cartridge_read(m.cart, chr_address + 8 * (j % 2))]

(* get_background_pixel: None, or Some pixel, of which the colour index is *)
(* kept (the colour itself goes to the screen only).                       *)
get_background_pixel(m, tiles, x) ==
    IF ~render_background(m) \/ (~render_background_leftmost(m) /\ x < 8)
    THEN [kind |-> "None"]
    ELSE LET index == (x \div 8) * 2
             bit == 7 - (x % 8)
             lsb == (tiles[index] \div (2 ^ bit)) % 2
             msb == (tiles[index + 1] \div (2 ^ bit)) % 2
         IN  [kind |-> "Some", color_idx |-> lsb + 2 * msb]

Sprite_flip(sprite) ==
    LET f == And(sprite.attributes, \hC0) \div 64
    IN  CASE f = \h01 -> "Horizontal"
          [] f = \h10 -> "Vertical"
          [] f = \h11 -> "Both"
          [] OTHER -> "None"

(* OAM entry i as get_scanline_sprite_pixels reads it: Y is stored one     *)
(* less than the first scanline the sprite shows on.                       *)
OamSprite(m, i) ==
    [y |-> (Peek(m.ppu.oam, 4 * i) + 1) % 256,
     tile_index |-> Peek(m.ppu.oam, 4 * i + 1),
     attributes |-> Peek(m.ppu.oam, 4 * i + 2),
     x |-> Peek(m.ppu.oam, 4 * i + 3)]

(* The loop over the 64 OAM entries in closed form: entries on the         *)
(* scanline are pushed, in OAM order, while out.len() <= 8; every later    *)
(* one sets the overflow flag.                                             *)
get_scanline_sprite_pixels(m) ==
    LET y == m.ppu.scanline
        hits == {i \in 0 .. 63 : y < OamSprite(m, i).y + 8
                                 /\ y >= OamSprite(m, i).y}
        Rank(i) == Cardinality({j \in hits : j < i})
        kept == {i \in hits : Rank(i) <= 8}
    IN  Ret(IF \E i \in hits : Rank(i) > 8 THEN set_sprite_overflow(m, TRUE)
            ELSE m,
            [k \in 1 .. Cardinality(kept) |->
                OamSprite(m, CHOOSE i \in kept : Rank(i) = k - 1)])

(* get_sprite_pixel from the k-th visible sprite on: None, the abort, or   *)
(* Some pixel.                                                             *)
None == [kind |-> "None"]

Aborted == [kind |-> "Panic"]

RECURSIVE SpritePixelFrom(_, _, _, _)
SpritePixelFrom(m, visible, x, k) ==
    IF k > Len(visible) THEN None
    ELSE
      LET sprite == visible[k]
          flip == Sprite_flip(sprite)
          y == m.ppu.scanline - sprite.y
          raw == 16 * (sprite.tile_index + foreground_offset(m)) + y
          addr0 == raw % 65536
          vflip == flip \in {"Both", "Vertical"}
          chr_address == IF vflip THEN (7 - addr0 + 65536) % 65536 ELSE addr0
          chr_left == Cartridge_read(m.cart, chr_address)
          chr_right == Cartridge_read(m.cart, (chr_address + 8) % 65536)
          sx == x - sprite.x
          bit == IF flip \in {"Both", "Horizontal"} THEN sx % 8
                 ELSE 7 - (sx % 8)
          lsb == (chr_left \div (2 ^ bit)) % 2
          msb == (chr_right \div (2 ^ bit)) % 2
          color_idx == lsb + 2 * msb
      IN  IF x >= sprite.x /\ x < (sprite.x + 8) % 256
          THEN IF (m.oc /\ (raw >= 65536 \/ (vflip /\ addr0 > 7)
                            \/ chr_address + 8 >= 65536))
                  \/ chr_left < 0 \/ chr_right < 0
               THEN Aborted
               ELSE IF color_idx = 0
               THEN SpritePixelFrom(m, visible, x, k + 1)
               ELSE [kind |-> "Some",
                     palette |-> And(sprite.attributes, \h03) * 4,
                     color_idx |-> color_idx,
                     front |-> And(sprite.attributes, \h20) = 0,
                     sprite_zero |-> chr_address < \h03]
          ELSE SpritePixelFrom(m, visible, x, k + 1)

get_sprite_pixel(m, visible, x) ==
    IF And(m.ppu.ppumask, \h10) = 0
       \/ (And(m.ppu.ppumask, \h04) = 0 /\ x < 8)
    THEN None
    ELSE SpritePixelFrom(m, visible, x, 1)

render_scanline(m) ==
    Bind(get_scanline_sprite_pixels(m), LAMBDA sp :
    Bind([x \in 0 .. SCREEN_WIDTH - 1 |-> get_sprite_pixel(sp.m, sp.v, x)],
         LAMBDA fg :
        IF \E x \in DOMAIN fg : fg[x].kind = "Panic" THEN Panic(sp.m)
        ELSE IF \E x \in DOMAIN fg :
                   fg[x].kind = "Some" /\ fg[x].sprite_zero
        THEN set_sprite_zero_hit(sp.m)
        ELSE sp.m))

(* One pass of the loop of PPU::tick, repeated until the PPU has caught up *)
(* with the CPU's cycle counter.                                           *)
RECURSIVE PPU_tick_loop(_)
PPU_tick_loop(m) ==
    IF m.panic \/ m.ppu.cycles + CYCLES_PER_SCANLINE > m.cycles THEN m
    ELSE
      Bind(IF m.ppu.scanline < SCREEN_HEIGHT THEN render_scanline(m) ELSE m,
           LAMBDA m1 :
      Bind([m1 EXCEPT !.ppu.scanline = @ + 1], LAMBDA m2 :
      Bind(IF m2.ppu.scanline = VBLANK_SCANLINE
           THEN Bind([set_vblank(m2, TRUE) EXCEPT
                          !.ppu.ppustatus = And(@, \hBF)],
                     LAMBDA vb :
                         IF vblank_nmi(vb)
                         THEN nmi(vb)
                         ELSE vb)
           ELSE IF m2.ppu.scanline = LAST_SCANLINE
           THEN set_vblank([m2 EXCEPT !.ppu.frame_complete = TRUE,
                                      !.ppu.scanline = 0], FALSE)
           ELSE m2,
           LAMBDA m3 :
          PPU_tick_loop([m3 EXCEPT
                             !.ppu.cycles = @ + CYCLES_PER_SCANLINE]))))

(* tick that accounts one scanline's cycles more than the steps it made:  *)
(* a variant that the cycle-accounting property must tell from the code.   *)
PPU_tick_runs_ahead(m) ==
    LET t == PPU_tick_loop([m EXCEPT !.ppu.frame_complete = FALSE])
    IN  [t EXCEPT !.ppu.cycles = @ + CYCLES_PER_SCANLINE]

(* tick without the clearing of frame_complete at its start: a variant     *)
(* that the frame property must tell from the code.                        *)
PPU_tick_keeps_flag(m) == PPU_tick_loop(m)

PPU_tick(m) == PPU_tick_loop([m EXCEPT !.ppu.frame_complete = FALSE])

----------------------------------------------------------------------------
(* Cartridges.  The machine is explored on a family of small NROM images   *)
(* (one 16 KiB PRG unit, no CHR): a program at 0x8000, fixed landing pads  *)
(* and the three vectors.  0x02 is an opcode missing from tick's table, so *)
(* every program ends in tick's "opcode not implemented" panic.            *)

Lo(w) == w % 256

Hi(w) == w \div 256

(* Copy bytes into an array from index base on.                            *)
Place(mem, base, bytes) ==
    LET idx == {base + i - 1 : i \in 1 .. Len(bytes)}
        val(j) == IF j \in idx THEN bytes[j - base + 1] ELSE mem[j]
    IN  [j \in {k \in DOMAIN mem \cup idx : val(k) # 0} |-> val(j)]

(* PRG offsets: 0x40 and 0x80 stop; 0x50 is a subroutine (RTS); 0x60 the   *)
(* NMI handler and 0x70 the BRK handler (RTI); 0x3F00 is the byte JMP      *)
(* (0xFFFF) pairs with 0xFFFF; 0x3FFA.. are the NMI, RESET, BRK vectors.   *)
Pads ==
    Place(Place(Place(Place(Place(Place(Zeroed,
        \h40, <<\h02>>), \h50, <<\h60>>), \h60, <<\h40>>), \h70, <<\h40>>),
        \h80, <<\h02>>), \h3F00, <<\h80>>)

Vectors == <<\h60, \h80, \h00, \h80, \h70, \h80>>

RomImage(code) ==
    [mapper |-> 0, prg_rom_size |-> 1, chr_rom_size |-> 0, chr_rom |-> Zeroed,
     prg_rom |-> Place(Place(Pads, \h3FFA, Vectors), 0, code)]

ByteSamples == {\h00, \h01, \h50, \h7F, \h80, \hF0, \hFF}

StackSamples == {\h00, \h01, \h80, \hFD, \hFF}

RamSamples == {\h0000, \h0234, \h07FF}

(* LDA #a; SEC or CLC; ADC #mv or SBC #mv.                                 *)
ProgAlu(a, c, op, mv) ==
    <<\hA9, a, IF c THEN \h38 ELSE \h18, op, mv, \h02>>

(* LDX #s; TXS; LDA #v; PHA; LDA #0; PLA.                                  *)
ProgStack(s, v) == <<\hA2, s, \h9A, \hA9, v, \h48, \hA9, \h00, \h68, \h02>>

(* LDX #s; TXS; n NOPs; JSR $8050; then the stop the RTS returns to.       *)
ProgCall(s, n) ==
    <<\hA2, s, \h9A>> \o [i \in 1 .. n |-> \hEA] \o <<\h20, \h50, \h80, \h02>>

(* A prefix, then BRK; its handler's RTI returns to the stop at BRK + 2.   *)
ProgBrk(pre) == pre \o <<\h00, \hEA, \h02>>

(* Store lo at ptr, a decoy at ptr + 1, hi where the source reads the high *)
(* byte from, then JMP (ptr).                                              *)
ProgJmpRam(ptr) ==
    LET nxt == ptr + 1
        wrap == Or(And(ptr, \hFF00), And(ptr + 1, \h00FF))
    IN  <<\hA9, \h40, \h8D, Lo(ptr), Hi(ptr),
          \hA9, \h90, \h8D, Lo(nxt), Hi(nxt),
          \hA9, \h80, \h8D, Lo(wrap), Hi(wrap),
          \h6C, Lo(ptr), Hi(ptr)>>

ProgJmp(ptr) == <<\h6C, Lo(ptr), Hi(ptr)>>

(* PPUCTRL := 0x80; VRAM[0x2000] := 0x40 through PPUADDR/PPUDATA; one read *)
(* of PPUDATA to fill the read buffer; then JMP ($30FF), whose pointer     *)
(* bytes are PPUDATA (0x30FF) and PPUCTRL (0x3000).                        *)
ProgJmpPpu ==
    <<\hA9, \h80, \h8D, \h00, \h20,
      \hA9, \h20, \h8D, \h06, \h20, \hA9, \h00, \h8D, \h06, \h20,
      \hA9, \h40, \h8D, \h07, \h20,
      \hA9, \h20, \h8D, \h06, \h20, \hA9, \h00, \h8D, \h06, \h20,
      \hAD, \h07, \h20,
      \h6C, \hFF, \h30>>

(* LDA #v; STA a + 0x800 k; LDA #0; LDA a + 0x800 j.                       *)
ProgMirror(a, k, j, v) ==
    LET w == a + \h800 * k
        r == a + \h800 * j
    IN  <<\hA9, v, \h8D, Lo(w), Hi(w), \hA9, \h00, \hAD, Lo(r), Hi(r), \h02>>

Programs ==
    {ProgAlu(a, c, op, mv) : a \in ByteSamples, c \in BOOLEAN,
                             op \in {\h69, \hE9}, mv \in ByteSamples}
    \cup {ProgStack(s, v) : s \in StackSamples, v \in ByteSamples}
    \cup {ProgCall(s, n) : s \in StackSamples, n \in 0 .. 1}
    \cup {ProgBrk(pre) : pre \in {<<>>, <<\h38, \hF8>>, <<\hA2, \h00, \h9A>>}}
    \cup {ProgJmpRam(ptr) : ptr \in {\h0280, \h02FF}}
    \cup {ProgJmp(ptr) : ptr \in {\hFFFF, \hBFFF, \h2003}}
    \cup {ProgJmpPpu}
    \cup {ProgMirror(a, k, j, v) : a \in RamSamples, k \in 0 .. 3,
                                   j \in 0 .. 3, v \in {\h01, \hA5}}

(* LDX #s; TXS; optionally LDA #$80; STA $2000 (NMI on); then a JMP (p)    *)
(* that jumps to itself, 5 cycles a turn, for as long as the host runs.    *)
ProgFrame(s, nmi_on) ==
    LET pre == <<\hA2, s, \h9A>>
               \o (IF nmi_on THEN <<\hA9, \h80, \h8D, \h00, \h20>> ELSE <<>>)
        loop == \h8000 + Len(pre)
        p == loop + 3
    IN  pre \o <<\h6C, Lo(p), Hi(p), Lo(loop), Hi(loop)>>

(* LDA #$3F; STA PPUADDR; then for as long as the host runs: STA PPUSCROLL *)
(* (the latch goes to LO); LDA PPUSTATUS; JMP back.                        *)
ProgPoll ==
    <<\hA9, \h3F, \h8D, \h06, \h20,
      \h8D, \h05, \h20, \hAD, \h02, \h20, \h4C, \h05, \h80>>

FramePrograms ==
    {ProgFrame(s, n) : s \in {\h01, \hFD}, n \in BOOLEAN} \cup {ProgPoll}

(* Programs that drive the PPU's registers through the CPU bus.  A        *)
(* register k is addressed at its mirror j: 0x2000 + k + 8 j.              *)
PpuReg(k, j) == \h2000 + k + 8 * j

MirrorSamples == {0, 1, \h3FF}

(* LDA #$3F; STA PPUADDR; LDA PPUSTATUS; LDA #0; STA PPUADDR; STA PPUADDR; *)
(* LDA PPUSTATUS; LDA #$21; STA PPUADDR.                                   *)
ProgLatchReset(j) ==
    LET a == PpuReg(6, j)
        st == PpuReg(2, j)
    IN  <<\hA9, \h3F, \h8D, Lo(a), Hi(a), \hAD, Lo(st), Hi(st),
          \hA9, \h00, \h8D, Lo(a), Hi(a), \h8D, Lo(a), Hi(a),
          \hAD, Lo(st), Hi(st), \hA9, \h21, \h8D, Lo(a), Hi(a), \h02>>

(* LDA PPUSTATUS; LDA #hi; STA PPUADDR; LDA #lo; STA PPUADDR.              *)
SetPpuAddr(hi, lo) ==
    <<\hAD, \h02, \h20, \hA9, hi, \h8D, \h06, \h20, \hA9, lo, \h8D, \h06, \h20>>

(* PPUCTRL := ctl; two PPUDATA reads at hi:lo; a PPUDATA write of v at     *)
(* hi:lo; two PPUDATA reads at hi:lo again.                                *)
ProgVram(ctl, hi, lo, v) ==
    <<\hA9, ctl, \h8D, \h00, \h20>>
    \o SetPpuAddr(hi, lo) \o <<\hAD, \h07, \h20, \hAD, \h07, \h20>>
    \o SetPpuAddr(hi, lo) \o <<\hA9, v, \h8D, \h07, \h20>>
    \o SetPpuAddr(hi, lo) \o <<\hAD, \h07, \h20, \hAD, \h07, \h20, \h02>>

(* LDA #v; STA PPUSTATUS; LDA PPUSTATUS; the same with the latch at LO.    *)
ProgStatusWrite(v) ==
    <<\hA9, v, \h8D, \h02, \h20, \hAD, \h02, \h20,
      \h8D, \h06, \h20, \h8D, \h02, \h20, \h02>>

(* OAMADDR := 0x10; OAMDATA := 0x77 twice; OAMADDR := 0x10; LDA OAMDATA;   *)
(* PPUSCROLL := 0x77 twice; PPUMASK := 0x77.                               *)
ProgOam ==
    <<\hA9, \h10, \h8D, \h03, \h20, \hA9, \h77, \h8D, \h04, \h20,
      \h8D, \h04, \h20, \hA9, \h10, \h8D, \h03, \h20, \hAD, \h04, \h20,
      \hA9, \h77, \h8D, \h05, \h20, \h8D, \h05, \h20, \h8D, \h01, \h20, \h02>>

PpuHiSamples == {\h00, \h20, \h24, \h30, \h3F, \h60, \hFF}

PpuLoSamples == {\h00, \h1F, \hFF}

PpuPrograms ==
    {ProgLatchReset(j) : j \in MirrorSamples}
    \cup {ProgVram(ctl, hi, lo, \hA5) : ctl \in {\h00, \h04},
                                        hi \in PpuHiSamples,
                                        lo \in PpuLoSamples}
    \cup {ProgStatusWrite(v) : v \in {\h00, \h0A, \hFF}}
    \cup {ProgOam}

----------------------------------------------------------------------------
(* The controllers (joypad.rs).                                            *)

Joypad_default ==
    [a |-> FALSE, b |-> FALSE, up |-> FALSE, down |-> FALSE, left |-> FALSE,
     right |-> FALSE, start |-> FALSE, select |-> FALSE, strobe |-> 0]

Joypad_next(j) == IF j.strobe < 8 THEN [j EXCEPT !.strobe = @ + 1] ELSE j

Joypad_reset(j) == [j EXCEPT !.strobe = 0]

(* The variant the button-order property must tell from the code: Start is *)
(* reported before Select.                                                 *)
Joypad_state_start_first(j) ==
    IF j.strobe = 8 THEN [j |-> j, v |-> TRUE]
    ELSE [j |-> Joypad_next(j),
          v |-> CASE j.strobe = 0 -> j.a
                  [] j.strobe = 1 -> j.b
                  [] j.strobe = 2 -> j.start
                  [] j.strobe = 3 -> j.select
                  [] j.strobe = 4 -> j.up
                  [] j.strobe = 5 -> j.down
                  [] j.strobe = 6 -> j.left
                  [] j.strobe = 7 -> j.right
                  [] OTHER -> FALSE]

(* state(): the controller after the call and the value returned.  The     *)
(* indices are the constants A = 0, B = 1, SELECT = 2, START = 3, UP = 4,  *)
(* DOWN = 5, LEFT = 6, RIGHT = 7.                                          *)
Joypad_state(j) ==
    IF j.strobe = 8 THEN [j |-> j, v |-> TRUE]
    ELSE [j |-> Joypad_next(j),
          v |-> CASE j.strobe = 0 -> j.a
                  [] j.strobe = 1 -> j.b
                  [] j.strobe = 2 -> j.select
                  [] j.strobe = 3 -> j.start
                  [] j.strobe = 4 -> j.up
                  [] j.strobe = 5 -> j.down
                  [] j.strobe = 6 -> j.left
                  [] j.strobe = 7 -> j.right
                  [] OTHER -> FALSE]

(* set_keys of the host: the key's button of its controller is pressed or  *)
(* released; other keys change nothing.                                    *)
set_keys(j1, j2, keycode, pressed) ==
    CASE keycode = "R" -> <<[j1 EXCEPT !.start = pressed], j2>>
      [] keycode = "LShift" -> <<[j1 EXCEPT !.select = pressed], j2>>
      [] keycode = "V" -> <<[j1 EXCEPT !.a = pressed], j2>>
      [] keycode = "C" -> <<[j1 EXCEPT !.b = pressed], j2>>
      [] keycode = "W" -> <<[j1 EXCEPT !.up = pressed], j2>>
      [] keycode = "S" -> <<[j1 EXCEPT !.down = pressed], j2>>
      [] keycode = "A" -> <<[j1 EXCEPT !.left = pressed], j2>>
      [] keycode = "D" -> <<[j1 EXCEPT !.right = pressed], j2>>
      [] keycode = "U" -> <<j1, [j2 EXCEPT !.start = pressed]>>
      [] keycode = "RShift" -> <<j1, [j2 EXCEPT !.select = pressed]>>
      [] keycode = "N" -> <<j1, [j2 EXCEPT !.a = pressed]>>
      [] keycode = "B" -> <<j1, [j2 EXCEPT !.b = pressed]>>
      [] keycode = "I" -> <<j1, [j2 EXCEPT !.up = pressed]>>
      [] keycode = "K" -> <<j1, [j2 EXCEPT !.down = pressed]>>
      [] keycode = "J" -> <<j1, [j2 EXCEPT !.left = pressed]>>
      [] keycode = "L" -> <<j1, [j2 EXCEPT !.right = pressed]>>
      [] OTHER -> <<j1, j2>>

----------------------------------------------------------------------------
(* The host (nes.rs): construction, then cpu.tick and ppu.tick in turn.    *)

MaxCycles == 60000
MaxResets == 1

(* CPU::new and PPU::new on a cartridge, in a build with or without        *)
(* overflow checks.                                                        *)
CPU_new(c, oc) ==
    reset([reg |-> Registers_default, ram |-> Zeroed, apu |-> Zeroed,
           ppu |-> PPU_new, cart |-> c, cycles |-> 0, panic |-> FALSE,
           oc |-> oc])

Cur ==
    [reg |-> reg, ram |-> ram, apu |-> apu, ppu |-> ppu, cart |-> cart,
     cycles |-> cycles, panic |-> FALSE, oc |-> overflow_checks]

InitWith(images) ==
    \E c \in images, oc \in BOOLEAN :
        LET m == CPU_new(c, oc)
        IN  /\ reg = m.reg
            /\ ram = m.ram
            /\ apu = m.apu
            /\ ppu = m.ppu
            /\ cart = m.cart
            /\ cycles = m.cycles
            /\ panicked = m.panic
            /\ overflow_checks = oc
            /\ phase = "cpu"
            /\ resets = 0
            /\ joypad_1 = Joypad_default
            /\ joypad_2 = Joypad_default
            /\ last = [op |-> "new", opcode |-> -1, pre |-> m,
                       prev |-> [opcode |-> -1, pre |-> m]]

InitOn(programs) == InitWith({RomImage(code) : code \in programs})

Init == InitOn(Programs)

InitFrame == InitOn(FramePrograms)

(* A call's outcome becomes the state; a panic ends the process, and the   *)
(* state it was in stays for inspection.                                   *)
Commit(m) ==
    /\ panicked' = m.panic
    /\ IF m.panic
       THEN UNCHANGED <<reg, ram, apu, ppu, cart, cycles>>
       ELSE /\ reg' = m.reg
            /\ ram' = m.ram
            /\ apu' = m.apu
            /\ ppu' = m.ppu
            /\ cart' = m.cart
            /\ cycles' = m.cycles
    /\ UNCHANGED <<overflow_checks, joypad_1, joypad_2>>

LastCpu ==
    IF last.op = "cpu" THEN [opcode |-> last.opcode, pre |-> last.pre]
    ELSE last.prev

CpuTick ==
    /\ phase = "cpu"
    /\ ~panicked
    /\ cycles < MaxCycles
    /\ LET opcode == CPU_readb(Cur, reg.pc).v
       IN  /\ Decode(opcode)[1] \in Modelled
           /\ Commit(tick_cycles(Cur))
           /\ last' = [op |-> "cpu", opcode |-> opcode, pre |-> Cur,
                       prev |-> LastCpu]
    /\ phase' = "ppu"
    /\ UNCHANGED resets

PpuTick ==
    /\ phase = "ppu"
    /\ ~panicked
    /\ LET m == PPU_tick(Cur)
       IN  /\ Commit(m)
           /\ last' = [op |-> "ppu", opcode |-> -1, pre |-> Cur,
                       prev |-> LastCpu]
    /\ phase' = "cpu"
    /\ UNCHANGED resets

Reset ==
    /\ phase = "cpu"
    /\ ~panicked
    /\ resets < MaxResets
    /\ Commit(reset(Cur))
    /\ last' = [op |-> "reset", opcode |-> -1, pre |-> Cur, prev |-> LastCpu]
    /\ resets' = resets + 1
    /\ UNCHANGED phase

Next == CpuTick \/ PpuTick \/ Reset

Spec == Init /\ [][Next]_vars

NextFrame == CpuTick \/ PpuTick

SpecFrame == InitFrame /\ [][NextFrame]_vars

(* The host loop never stops on its own: whenever a call can be made, the  *)
(* call whose turn it is gets made.  HostTurn is a step of the loop, told  *)
(* by the turn passing on; it is enabled where CpuTick or PpuTick is.      *)
HostTurn ==
    /\ ~panicked
    /\ phase = "cpu" =>
           /\ cycles < MaxCycles
           /\ Decode(CPU_readb(Cur, reg.pc).v)[1] \in Modelled
    /\ phase' \in {"cpu", "ppu"}
    /\ phase' # phase

InitLive == InitOn({ProgFrame(\hFD, TRUE), ProgPoll})

SpecFrameLive == InitLive /\ [][NextFrame]_vars /\ WF_phase(HostTurn)

InitPpu == InitOn(PpuPrograms)

SpecPpu == InitPpu /\ [][NextFrame]_vars

(* NROM cartridges of one and of two PRG units.  The two-unit image has    *)
(* its vectors in the last six bytes of the second unit and a byte of its  *)
(* own at the start of it.                                                 *)
RomImage2(code) ==
    [RomImage(code) EXCEPT
         !.prg_rom_size = 2,
         !.prg_rom = Place(Place(@, \h4000, <<\h5A>>), \h7FFA, Vectors)]

(* JMP $8000 at 0x8000.                                                    *)
ProgSelfJump == <<\h4C, \h00, \h80>>

(* LDA #v; STA w; LDA w.                                                   *)
ProgRomWrite(w, v) == <<\hA9, v, \h8D, Lo(w), Hi(w), \hAD, Lo(w), Hi(w), \h02>>

RomWriteAddrs == {\h8000, \hBFFF, \hC000, \hFFFF}

(* LDA #v; STA $pp00; STA $ppFF; LDA #p; STA $4014.                        *)
ProgDma(p, v) ==
    <<\hA9, v, \h8D, \h00, p, \h8D, \hFF, p, \hA9, p, \h8D, \h14, \h40, \h02>>

NromImages ==
    {RomImage(ProgSelfJump), RomImage2(ProgSelfJump)}
    \cup {RomImage(ProgRomWrite(w, v)) : w \in RomWriteAddrs, v \in {\h00, \hA5}}
    \cup {RomImage2(ProgRomWrite(w, \hA5)) : w \in RomWriteAddrs}
    \cup {RomImage(ProgDma(p, \h5A)) : p \in {\h02, \h07}}

InitNrom == InitWith(NromImages)

SpecNrom == InitNrom /\ [][NextFrame]_vars

(* mapper::from: the mapper variant the header names, built on the image.  *)
Mapper_from(c) ==
    IF c.mapper = 1 THEN Mapper001_new(c)
    ELSE IF c.mapper = 3 THEN Mapper003_new(c)
    ELSE c

(* CHR ROM of the given number of 8 KiB units, unit k holding 0x11 (k + 1) *)
(* in its first and 0x0F + 0x10 (k + 1) in its last byte.                  *)
ChrBytes(units) ==
    [j \in {\h2000 * k : k \in 0 .. units - 1}
           \cup {\h2000 * k + \h1FFF : k \in 0 .. units - 1} |->
        IF j % \h2000 = 0 THEN \h11 * (j \div \h2000 + 1)
        ELSE \h0F + \h10 * (j \div \h2000 + 1)]

CartImage(mapper, prg_units, chr_units) ==
    Mapper_from([(IF prg_units = 2 THEN RomImage2(ProgSelfJump)
                  ELSE RomImage(ProgSelfJump))
                     EXCEPT !.mapper = mapper,
                            !.chr_rom_size = chr_units,
                            !.chr_rom = ChrBytes(chr_units)])

CartImages ==
    {CartImage(0, 1, chr) : chr \in {0, 1}}
    \cup {CartImage(1, 1, chr) : chr \in {0, 1}}
    \cup {CartImage(3, prg, chr) : prg \in {1, 2}, chr \in {0, 4}}

CartAddrs == {\h8001, \hC002, \hFFFF}

CartVals == {\h00, \h02, \hFF}

ChrAddrs == {\h0000, \h1FFF}

InitCart ==
    \E c \in CartImages, oc \in BOOLEAN :
        LET m == CPU_new(c, oc)
        IN  /\ reg = m.reg
            /\ ram = m.ram
            /\ apu = m.apu
            /\ ppu = m.ppu
            /\ cart = m.cart
            /\ cycles = m.cycles
            /\ panicked = m.panic
            /\ overflow_checks = oc
            /\ phase = "cpu"
            /\ resets = 0
            /\ joypad_1 = Joypad_default
            /\ joypad_2 = Joypad_default
            /\ last = [op |-> "new", opcode |-> -1, pre |-> m,
                       prev |-> [op |-> "new", addr |-> 0, val |-> 0],
                       addr |-> 0, val |-> 0]

Earlier == [op |-> last.op, addr |-> last.addr, val |-> last.val]

(* A store and a load on the CPU bus, and a store and a load on the PPU    *)
(* bus, at a cartridge address: CPU::writeb, CPU::readb, PPU::writeb,      *)
(* PPU::readb.  val is the byte written or the byte read.                  *)
CartWrite ==
    /\ ~panicked
    /\ \E addr \in CartAddrs, val \in CartVals :
           /\ Commit(CPU_writeb(Cur, addr, val))
           /\ last' = [op |-> "writeb", opcode |-> -1, pre |-> Cur,
                       prev |-> Earlier, addr |-> addr, val |-> val]
    /\ UNCHANGED <<phase, resets>>

CartRead ==
    /\ ~panicked
    /\ \E addr \in CartAddrs :
           LET r == CPU_readb(Cur, addr)
           IN  /\ Commit(r.m)
               /\ last' = [op |-> "readb", opcode |-> -1, pre |-> Cur,
                           prev |-> Earlier, addr |-> addr, val |-> r.v]
    /\ UNCHANGED <<phase, resets>>

ChrWrite ==
    /\ ~panicked
    /\ \E addr \in ChrAddrs, val \in {\hA5} :
           /\ Commit(PPU_writeb(Cur, addr, val))
           /\ last' = [op |-> "ppu_writeb", opcode |-> -1, pre |-> Cur,
                       prev |-> Earlier, addr |-> addr, val |-> val]
    /\ UNCHANGED <<phase, resets>>

ChrRead ==
    /\ ~panicked
    /\ \E addr \in ChrAddrs :
           LET r == PPU_readb(Cur, addr)
           IN  /\ Commit(r.m)
               /\ last' = [op |-> "ppu_readb", opcode |-> -1, pre |-> Cur,
                           prev |-> Earlier, addr |-> addr, val |-> r.v]
    /\ UNCHANGED <<phase, resets>>

NextCart == CartWrite \/ CartRead \/ ChrWrite \/ ChrRead

SpecCart == InitCart /\ [][NextCart]_vars

(* A controller and its callers: the host's key events, and reset() and    *)
(* state() called in any order.                                            *)
MaxReads == 10

MachineVars ==
    <<reg, ram, apu, ppu, cart, cycles, panicked, overflow_checks, phase,
      resets>>

KeySamples == {"V", "LShift", "R", "D", "N", "Q"}

InitJoypad ==
    \E oc \in BOOLEAN :
        LET m == CPU_new(RomImage(ProgSelfJump), oc)
        IN  /\ reg = m.reg
            /\ ram = m.ram
            /\ apu = m.apu
            /\ ppu = m.ppu
            /\ cart = m.cart
            /\ cycles = m.cycles
            /\ panicked = m.panic
            /\ overflow_checks = oc
            /\ phase = "cpu"
            /\ resets = 0
            /\ joypad_1 = Joypad_default
            /\ joypad_2 = Joypad_default
            /\ last = [op |-> "new", val |-> FALSE, reads |-> 0,
                       armed |-> FALSE]

(* The host's event loop: KeyDown and KeyUp events of a key.               *)
SetKeys ==
    /\ \E keycode \in KeySamples, pressed \in BOOLEAN :
           LET j == set_keys(joypad_1, joypad_2, keycode, pressed)
           IN  /\ joypad_1' = j[1]
               /\ joypad_2' = j[2]
    /\ last' = [last EXCEPT !.op = "set_keys"]
    /\ UNCHANGED MachineVars

JoypadReset ==
    /\ joypad_1' = Joypad_reset(joypad_1)
    /\ last' = [op |-> "reset", val |-> FALSE, reads |-> 0, armed |-> TRUE]
    /\ UNCHANGED <<MachineVars, joypad_2>>

JoypadState ==
    /\ last.reads < MaxReads
    /\ joypad_1' = Joypad_state(joypad_1).j
    /\ last' = [op |-> "state", val |-> Joypad_state(joypad_1).v,
                reads |-> last.reads + 1, armed |-> last.armed]
    /\ UNCHANGED <<MachineVars, joypad_2>>

NextJoypad == SetKeys \/ JoypadReset \/ JoypadState

SpecJoypad == InitJoypad /\ [][NextJoypad]_vars

(* The controller ports on the CPU bus: stores to 0x4016, loads from       *)
(* 0x4016 and 0x4017, and the host's key events in between.  stage tells   *)
(* how far a strobe (bit 0 set, then clear) has come; n1 and n2 count the  *)
(* loads from each port since the strobe.                                  *)
InitPad ==
    \E oc \in BOOLEAN :
        LET m == CPU_new(RomImage(ProgSelfJump), oc)
        IN  /\ reg = m.reg
            /\ ram = m.ram
            /\ apu = m.apu
            /\ ppu = m.ppu
            /\ cart = m.cart
            /\ cycles = m.cycles
            /\ panicked = m.panic
            /\ overflow_checks = oc
            /\ phase = "cpu"
            /\ resets = 0
            /\ joypad_1 = Joypad_default
            /\ joypad_2 = Joypad_default
            /\ last = [op |-> "new", addr |-> 0, val |-> 0, stage |-> "idle",
                       n1 |-> 0, n2 |-> 0]

PadWrite ==
    /\ ~panicked
    /\ \E val \in {\h00, \h01} :
           /\ Commit(CPU_writeb(Cur, \h4016, val))
           /\ last' = [op |-> "writeb", addr |-> \h4016, val |-> val,
                       stage |-> IF val % 2 = 1 THEN "high"
                                 ELSE IF last.stage = "high" THEN "armed"
                                 ELSE last.stage,
                       n1 |-> IF val % 2 = 0 /\ last.stage = "high"
                              THEN 0 ELSE last.n1,
                       n2 |-> IF val % 2 = 0 /\ last.stage = "high"
                              THEN 0 ELSE last.n2]
    /\ UNCHANGED <<phase, resets>>

PadRead ==
    /\ ~panicked
    /\ \E addr \in {\h4016, \h4017} :
           /\ (IF addr = \h4016 THEN last.n1 ELSE last.n2) < MaxReads
           /\ Commit(CPU_readb(Cur, addr).m)
           /\ last' = [op |-> "readb", addr |-> addr,
                       val |-> CPU_readb(Cur, addr).v,
                       stage |-> last.stage,
                       n1 |-> last.n1 + (IF addr = \h4016 THEN 1 ELSE 0),
                       n2 |-> last.n2 + (IF addr = \h4017 THEN 1 ELSE 0)]
    /\ UNCHANGED <<phase, resets>>

NextPad == SetKeys \/ PadWrite \/ PadRead

SpecPad == InitPad /\ [][NextPad]_vars

(* The sprite pre-scan on its own.  OAM holds count sprites at Y = y0, in  *)
(* the first entries (every = 1) or in every second entry (every = 2),     *)
(* and hides the rest at Y = 0xF0; entry i has tile index i and X = i.     *)
SpriteOam(count, every, y0) ==
    LET val(j) ==
            LET i == j \div 4
            IN  CASE j % 4 = 0 ->
                         IF i % every = 0 /\ i \div every < count THEN y0
                         ELSE \hF0
                  [] j % 4 = 2 -> 0
                  [] OTHER -> i
    IN  [j \in {k \in 0 .. 255 : val(k) # 0} |-> val(j)]

SpriteCounts == {0, 1, 7, 8, 9, 10, 12}

SpriteYs == {\h00, \h10, \hFF}

SpriteLines == {\h00, \h01, \h07, \h11, \h18, \h19}

InitSprites ==
    \E count \in SpriteCounts, every \in {1, 2}, y0 \in SpriteYs,
       line \in SpriteLines, oc \in BOOLEAN :
        LET m0 == CPU_new(RomImage(ProgSelfJump), oc)
            m == [m0 EXCEPT !.ppu.oam = SpriteOam(count, every, y0),
                            !.ppu.scanline = line]
        IN  /\ reg = m.reg
            /\ ram = m.ram
            /\ apu = m.apu
            /\ ppu = m.ppu
            /\ cart = m.cart
            /\ cycles = m.cycles
            /\ panicked = m.panic
            /\ overflow_checks = oc
            /\ phase = "ppu"
            /\ resets = 0
            /\ joypad_1 = Joypad_default
            /\ joypad_2 = Joypad_default
            /\ last = [op |-> "new", pre |-> m, out |-> <<>>]

(* render_scanline's first step: the pre-scan of OAM for the scanline.     *)
PreScan ==
    /\ ~panicked
    /\ Commit(get_scanline_sprite_pixels(Cur).m)
    /\ last' = [op |-> "get_scanline_sprite_pixels", pre |-> Cur,
                out |-> get_scanline_sprite_pixels(Cur).v]
    /\ UNCHANGED <<phase, resets>>

SpecSprites == InitSprites /\ [][PreScan]_vars

(* One scanline's rendering on its own.  The cartridge has CHR: sprite     *)
(* tiles 0 and 1 have every pixel opaque (plane 0 all ones), and the       *)
(* background's tile 0, in the upper pattern table PPU::new selects, is    *)
(* opaque in the same way or left transparent.  OAM hides every entry at   *)
(* Y = 0xF0 but one, which sits at Y = 0x10, X = 0x20.                     *)
RenderImage(bg_opaque) ==
    [RomImage(ProgSelfJump) EXCEPT
         !.chr_rom_size = 1,
         !.chr_rom = [j \in (0 .. 7) \cup (16 .. 23)
                            \cup (IF bg_opaque THEN \h1000 .. \h1007 ELSE {})
                        |-> \hFF]]

RenderOam(entry, tile, attr) ==
    LET val(j) ==
            CASE j % 4 = 0 -> IF j \div 4 = entry THEN \h10 ELSE \hF0
              [] j \div 4 # entry -> 0
              [] j % 4 = 1 -> tile
              [] j % 4 = 2 -> attr
              [] OTHER -> \h20
    IN  [j \in {k \in 0 .. 255 : val(k) # 0} |-> val(j)]

RenderEntries == {0, 5}

RenderAttributes == {\h00, \h40, \h80, \hC0}

RenderMasks == {\h0A, \h14, \h1E}

RenderRows == {0, 2, 3, 7}

InitRender ==
    \E entry \in RenderEntries, tile \in {0, 1}, attr \in RenderAttributes,
       mask \in RenderMasks, row \in RenderRows, bg_opaque \in BOOLEAN,
       oc \in BOOLEAN :
        LET m0 == CPU_new(RenderImage(bg_opaque), oc)
            m == [m0 EXCEPT !.ppu.oam = RenderOam(entry, tile, attr),
                            !.ppu.ppumask = mask,
                            !.ppu.scanline = \h11 + row]
        IN  /\ reg = m.reg
            /\ ram = m.ram
            /\ apu = m.apu
            /\ ppu = m.ppu
            /\ cart = m.cart
            /\ cycles = m.cycles
            /\ panicked = m.panic
            /\ overflow_checks = oc
            /\ phase = "ppu"
            /\ resets = 0
            /\ joypad_1 = Joypad_default
            /\ joypad_2 = Joypad_default
            /\ last = [op |-> "new", pre |-> m]

(* PPU::tick's call of render_scanline for the current scanline.           *)
Render ==
    /\ ~panicked
    /\ last.op = "new"
    /\ Commit(render_scanline(Cur))
    /\ last' = [op |-> "render_scanline", pre |-> Cur]
    /\ UNCHANGED <<phase, resets>>

SpecRender == InitRender /\ [][Render]_vars

(* Programs that write one byte through PPUDATA at 0x2000 + lo and read    *)
(* PPUDATA twice at 0x2000 + 0x400 k + lo: the second read returns the     *)
(* byte at that address.                                                   *)
ProgNametable(k, lo, v) ==
    SetPpuAddr(\h20, lo) \o <<\hA9, v, \h8D, \h07, \h20>>
    \o SetPpuAddr(\h20 + 4 * k, lo)
    \o <<\hAD, \h07, \h20, \hAD, \h07, \h20, \h02>>

NametablePrograms ==
    {ProgNametable(k, lo, v) : k \in 0 .. 3, lo \in {\h00, \h05, \hFF},
                               v \in {\h01, \hA5}}

InitNametable == InitOn(NametablePrograms)

SpecNametable == InitNametable /\ [][NextFrame]_vars

(* Programs for the addressing modes.  The pointer 0x0234 is laid at the   *)
(* zero-page bytes p and (p + 1) mod 256, p = (operand + x) mod 256, and v *)
(* at 0x0234: LDA / CMP (operand,X).                                       *)
ProgIndX(operand, x, v) ==
    LET p == (operand + x) % 256
    IN  <<\hA9, \h34, \h85, p, \hA9, \h02, \h85, (p + 1) % 256,
          \hA9, v, \h8D, \h34, \h02, \hA2, x, \hA9, \h00,
          \hA1, operand, \hC1, operand, \h02>>

(* The same pointer at p and (p + 1) mod 256 and v at 0x0234 + y:          *)
(* LDA / CMP (p),Y.                                                        *)
ProgIndY(p, y, v) ==
    <<\hA9, \h34, \h85, p, \hA9, \h02, \h85, (p + 1) % 256,
      \hA9, v, \h8D, Lo(\h0234 + y), Hi(\h0234 + y), \hA0, y, \hA9, \h00,
      \hB1, p, \hD1, p, \h02>>

(* v at the zero-page byte (operand + x) mod 256; X = Y = x;               *)
(* LDA operand,X; STY $10; STA operand,X; LDX operand,Y.                   *)
ProgZpIndexed(operand, x, v) ==
    <<\hA9, v, \h85, (operand + x) % 256, \hA2, x, \hA0, x, \hA9, \h00,
      \hB5, operand, \h84, \h10, \h95, operand, \hB6, operand, \h02>>

(* The read-modify-write opcodes, by handler and addressing mode.          *)
RmwOpcodes ==
    {\h06, \h16, \h0E, \h1E, \h46, \h56, \h4E, \h5E, \h26, \h36, \h2E, \h3E,
     \h66, \h76, \h6E, \h7E, \hE6, \hF6, \hEE, \hFE, \hC6, \hD6, \hCE, \hDE}

(* v at the RAM address e; X = x; the carry set or cleared; then the       *)
(* opcode with the operand that, in its mode, addresses e.                 *)
ProgRmw(opcode, e, x, v, c) ==
    LET am == Decode(opcode)[2]
        operand ==
            CASE am = "ZeroPage" -> <<e % 256>>
              [] am = "ZeroPageX" -> <<(e + 256 - x) % 256>>
              [] am = "Absolute" -> <<Lo(e), Hi(e)>>
              [] am = "AbsoluteX" ->
                    <<Lo((e + 65536 - x) % 65536), Hi((e + 65536 - x) % 65536)>>
        target == IF am \in {"ZeroPage", "ZeroPageX"} THEN e % 256 ELSE e
    IN  <<\hA9, v, \h8D, Lo(target), Hi(target), \hA2, x,
          IF c THEN \h38 ELSE \h18, opcode>> \o operand \o <<\h02>>

PointerSamples == {\h00, \h80, \hFE, \hFF}

ModePrograms ==
    {ProgIndX(operand, x, \hA5) : operand \in PointerSamples, x \in {\h00, \h01, \hFF}}
    \cup {ProgIndY(p, y, \hA5) : p \in PointerSamples, y \in {\h00, \h01, \hFF}}
    \cup {ProgZpIndexed(operand, x, \hA5) : operand \in PointerSamples,
                                            x \in {\h00, \h01, \hFF}}
    \cup {ProgRmw(opcode, e, x, v, c) :
              opcode \in RmwOpcodes, e \in {\h0000, \h07FF}, x \in {\h00, \h01},
              v \in {\h00, \h01, \h80, \hFF}, c \in BOOLEAN}

InitModes == InitOn(ModePrograms)

SpecModes == InitModes /\ [][NextFrame]_vars

(* Programs for single instructions.                                       *)

(* LDX #x; LDA #a; TXS.                                                    *)
ProgTxs(x, a) == <<\hA2, x, \hA9, a, \h9A, \h02>>

(* LDA #v; PHA; PLP; PHP; PLA.                                             *)
ProgPlp(v) == <<\hA9, v, \h48, \h28, \h08, \h68, \h02>>

(* Push 0x80, 0x40 and v; RTI, which returns to the stop at 0x8040.        *)
ProgRti(v) == <<\hA9, \h80, \h48, \hA9, \h40, \h48, \hA9, v, \h48, \h40>>

InstrPrograms ==
    {ProgTxs(x, a) : x \in {\h00, \h01, \h80, \hFF}, a \in {\h00, \h01, \h80}}
    \cup {ProgPlp(v) : v \in ByteSamples \cup {\h10, \h20, \h30, \hCF}}
    \cup {ProgRti(v) : v \in ByteSamples \cup {\h10, \h20, \h30, \hCF}}
    \cup {ProgBrk(pre) : pre \in {<<>>, <<\h38, \hF8>>}}

InitInstr == InitOn(InstrPrograms)

SpecInstr == InitInstr /\ [][Next]_vars

(* An MMC1 cartridge on the bus: mapper::from builds mapper_001 from an    *)
(* image whose header names mapper 1, with one or two 16 KiB PRG units and *)
(* one 8 KiB CHR unit, and the CPU is constructed on it.                   *)
Mmc1Image(units) ==
    Mapper001_new([RomImage(<<\h02>>) EXCEPT !.mapper = 1,
                                             !.prg_rom_size = units,
                                             !.chr_rom_size = 1])

Mmc1Addrs ==
    {\h8000, \hA000, \hBFFF, \hC000, \hDFFE, \hDFFF, \hE000, \hFFFF}

Mmc1Vals == {\h00, \h01, \h0E, \h0F, \h7F, \h80, \hFF}

(* The low bits of the bit-7-clear writes made since the last write with   *)
(* bit 7 set or the last run of five, the write being made included.       *)
BitsAfter(bits, val) ==
    IF val >= \h80 THEN <<>>
    ELSE (IF Len(bits) = 5 THEN <<>> ELSE bits) \o <<val % 2>>

InitMmc1 ==
    \E units \in {1, 2}, oc \in BOOLEAN :
        LET m == CPU_new(Mmc1Image(units), oc)
        IN  /\ reg = m.reg
            /\ ram = m.ram
            /\ apu = m.apu
            /\ ppu = m.ppu
            /\ cart = m.cart
            /\ cycles = m.cycles
            /\ panicked = m.panic
            /\ overflow_checks = oc
            /\ phase = "cpu"
            /\ resets = 0
            /\ joypad_1 = Joypad_default
            /\ joypad_2 = Joypad_default
            /\ last = [op |-> "new", opcode |-> -1, pre |-> m,
                       prev |-> [opcode |-> -1, pre |-> m],
                       addr |-> 0, val |-> 0, bits |-> <<>>]

(* One store to the cartridge's register space: CPU::writeb, which hands   *)
(* the write to Cartridge::write and so to mapper_001's writeb.            *)
Mmc1Write ==
    /\ ~panicked
    /\ \E addr \in Mmc1Addrs, val \in Mmc1Vals :
           /\ Commit(CPU_writeb(Cur, addr, val))
           /\ last' = [op |-> "writeb", opcode |-> -1, pre |-> Cur,
                       prev |-> last.prev, addr |-> addr, val |-> val,
                       bits |-> BitsAfter(last.bits, val)]
    /\ UNCHANGED <<phase, resets>>

SpecMmc1 == InitMmc1 /\ [][Mmc1Write]_vars

----------------------------------------------------------------------------
(* Properties.  They read the state after an operation against the machine *)
(* before it, which `last` keeps.                                          *)

(* The instruction with this opcode has just completed.                    *)
Done(opcode) == last.op = "cpu" /\ last.opcode = opcode /\ ~panicked

(* The bytes that follow the opcode of the last instruction.               *)
ArgB == CPU_readb(last.pre, (last.pre.reg.pc + 1) % 65536).v

ArgW == ArgB + 256 * CPU_readb(last.pre, (last.pre.reg.pc + 2) % 65536).v

CarryIn == IF get_flag(last.pre, Flag_C) THEN 1 ELSE 0

(* The byte the stack holds n pushes below the S of machine m.             *)
Pushed(m, n) == Peek(ram, \h100 + ((m.reg.s + 256 - n) % 256))

(* C1: after ADC #M, A is (A + M + C) mod 256 and the carry flag is        *)
(* (A + M + C > 255), C being the carry flag before the instruction.       *)
C1_AdcAddsCarryIn ==
    Done(\h69) =>
        /\ reg.a = (last.pre.reg.a + ArgB + CarryIn) % 256
        /\ get_flag(Cur, Flag_C) = (last.pre.reg.a + ArgB + CarryIn > 255)

(* C1: ADC #$50 on A = 0x50 with the carry set has run and left 0xA0, the  *)
(* sum without the carry.                                                  *)
C1_AdcDropsCarryIn ==
    /\ Done(\h69)
    /\ last.pre.reg.a = \h50
    /\ ArgB = \h50
    /\ CarryIn = 1
    /\ reg.a = \hA0

(* C2 as amended: with A = 0x50 and C = 1, SBC #0xF0 leaves A = 0x60,      *)
(* N = 0, V = 0, Z = 0, C = 0.                                             *)
C2_SbcBorrowExample ==
    (Done(\hE9) /\ last.pre.reg.a = \h50 /\ CarryIn = 1 /\ ArgB = \hF0) =>
        /\ reg.a = \h60
        /\ ~get_flag(Cur, Flag_N)
        /\ ~get_flag(Cur, Flag_V)
        /\ ~get_flag(Cur, Flag_Z)
        /\ ~get_flag(Cur, Flag_C)

(* C2: SBC #0xF0 has run on A = 0x50 with the carry set.                   *)
C2_SbcBorrowExampleRan ==
    Done(\hE9) /\ last.pre.reg.a = \h50 /\ CarryIn = 1 /\ ArgB = \hF0

(* C2 as stated: with A = 0x50 and C = 1, SBC #0xF0 leaves A = 0x60,       *)
(* N = 0, V = 1, Z = 0, C = 0.                                             *)
C2_SbcBorrowExampleAsStated ==
    (Done(\hE9) /\ last.pre.reg.a = \h50 /\ CarryIn = 1 /\ ArgB = \hF0) =>
        /\ reg.a = \h60
        /\ ~get_flag(Cur, Flag_N)
        /\ get_flag(Cur, Flag_V)
        /\ ~get_flag(Cur, Flag_Z)
        /\ ~get_flag(Cur, Flag_C)

(* The machine ADC #(M xor 0xFF) leaves when run in place of the last      *)
(* instruction, an SBC #M in PRG ROM.                                      *)
AdcOfComplement ==
    adc([last.pre EXCEPT
             !.reg.pc = (@ + 1) % 65536,
             !.cart.prg_rom = Poke(@, last.pre.reg.pc + 1 - \h8000,
                                   Xor(ArgB, \hFF))],
        "Immediate").m

(* C3: SBC #M leaves A and the flags N, V, Z, C as ADC #(M xor 0xFF) run   *)
(* from the same state leaves them.                                        *)
C3_SbcIsAdcOfComplement ==
    Done(\hE9) =>
        /\ reg.a = AdcOfComplement.reg.a
        /\ \A f \in {Flag_N, Flag_V, Flag_Z, Flag_C} :
               get_flag(Cur, f) = get_flag(AdcOfComplement, f)

(* C3: SBC #0xF0 has run on A = 0x50 with the carry set and left 0x60,     *)
(* where ADC #0x0F leaves 0x5F.                                            *)
C3_SbcAndAdcDiffer ==
    /\ Done(\hE9)
    /\ last.pre.reg.a = \h50
    /\ CarryIn = 1
    /\ ArgB = \hF0
    /\ reg.a = \h60
    /\ AdcOfComplement.reg.a = \h5F

(* C4: reset() leaves S = 0xFD, P = 0x24 and PC = the word at 0xFFFC.      *)
C4_ResetState ==
    (last.op = "reset" /\ ~panicked) =>
        /\ reg.s = \hFD
        /\ reg.p = \h24
        /\ reg.pc = readw(Cur, RESET_VECTOR).v

(* C4: reset() has run after TXS moved S to 0x80, and S is still 0x80.     *)
C4_ResetKeepsS ==
    last.op = "reset" /\ ~panicked /\ last.pre.reg.s = \h80 /\ reg.s = \h80

(* C5: in every state, for every byte v and word w: pushb(v) stores v at   *)
(* 0x0100 | S, touches no other RAM cell and moves S down by one; popb     *)
(* then returns v and restores S; pushw(w) moves S down by two and popw    *)
(* then returns w and restores S.  PHA and PLA, which are one pushb and    *)
(* one popb, store at 0x0100 | S and load from 0x0100 | (S + 1).           *)
C5_StackRoundTrip ==
    /\ \A v \in ByteSamples :
           /\ pushb(Cur, v).ram = Poke(ram, \h100 + reg.s, v)
           /\ pushb(Cur, v).reg.s = (reg.s + 255) % 256
           /\ popb(pushb(Cur, v)).v = v
           /\ popb(pushb(Cur, v)).m.reg.s = reg.s
    /\ \A w \in {\h0000, \h00FF, \h8002, \hFF00, \hFFFF} :
           /\ pushw(Cur, w).reg.s = (reg.s + 254) % 256
           /\ popw(pushw(Cur, w)).v = w
           /\ popw(pushw(Cur, w)).m.reg.s = reg.s
    /\ Done(\h48) =>
           /\ ram = Poke(last.pre.ram, \h100 + last.pre.reg.s, last.pre.reg.a)
           /\ reg.s = (last.pre.reg.s + 255) % 256
    /\ Done(\h68) =>
           /\ reg.a = Peek(ram, \h100 + ((last.pre.reg.s + 1) % 256))
           /\ reg.s = (last.pre.reg.s + 1) % 256

(* C5: PLA has pulled 0xFF back with S = 0x00 again: the push stored at    *)
(* 0x0100 and wrapped S to 0xFF.                                           *)
C5_PulledAcrossWrap ==
    Done(\h68) /\ reg.a = \hFF /\ reg.s = \h00 /\ Peek(ram, \h100) = \hFF

(* C6: BRK at address a pushes the high then the low byte of a + 2, then   *)
(* P with bit 4 set, sets I and loads PC from the word at 0xFFFE.          *)
C6_BrkPushesB ==
    Done(\h00) =>
        /\ Pushed(last.pre, 0) = Hi((last.pre.reg.pc + 2) % 65536)
        /\ Pushed(last.pre, 1) = Lo((last.pre.reg.pc + 2) % 65536)
        /\ Pushed(last.pre, 2) = Or(last.pre.reg.p, Flag_B)
        /\ reg.s = (last.pre.reg.s + 253) % 256
        /\ get_flag(Cur, Flag_I)
        /\ reg.pc = readw(Cur, BRK_VECTOR).v

(* C6: BRK has run and the status byte on the stack has bit 4 clear.       *)
C6_BrkPushedPlainP ==
    /\ Done(\h00)
    /\ Pushed(last.pre, 2) = last.pre.reg.p
    /\ And(Pushed(last.pre, 2), Flag_B) = 0

(* ppu.tick has just moved the PPU onto the vblank scanline with the NMI   *)
(* enable bit of PPUCTRL set.                                              *)
NmiRaised ==
    /\ last.op = "ppu"
    /\ ~panicked
    /\ last.pre.ppu.scanline < VBLANK_SCANLINE
    /\ ppu.scanline = VBLANK_SCANLINE
    /\ And(last.pre.ppu.ppuctrl, \h80) # 0

(* C7: when ppu.tick raises NMI, the CPU is back at its fetch with the     *)
(* high byte of PC, the low byte of PC and P pushed in that order (S three *)
(* lower), I set and PC loaded from the word at 0xFFFA; a ppu.tick that    *)
(* raises no NMI leaves the CPU's registers and RAM as they were.          *)
C7_NmiServicedBeforeFetch ==
    /\ NmiRaised =>
           /\ Pushed(last.pre, 0) = Hi(last.pre.reg.pc)
           /\ Pushed(last.pre, 1) = Lo(last.pre.reg.pc)
           /\ Pushed(last.pre, 2) = last.pre.reg.p
           /\ reg.s = (last.pre.reg.s + 253) % 256
           /\ get_flag(Cur, Flag_I)
           /\ reg.pc = readw(Cur, NMI_VECTOR).v
           /\ phase = "cpu"
    /\ (last.op = "ppu" /\ ~NmiRaised) =>
           reg = last.pre.reg /\ ram = last.pre.ram

(* C7: NMI has been raised with S = 0x01, and the three pushes wrapped S   *)
(* to 0xFE.                                                                *)
C7_NmiRaisedAcrossWrap ==
    NmiRaised /\ last.pre.reg.s = \h01 /\ reg.s = \hFE

(* C8: JSR at address a pushes the high then the low byte of a + 2 and     *)
(* sets PC to its operand; the RTS that follows it sets PC to a + 3 and S  *)
(* to its value before the JSR.                                            *)
C8_JsrRts ==
    /\ Done(\h20) =>
           /\ Pushed(last.pre, 0) = Hi((last.pre.reg.pc + 2) % 65536)
           /\ Pushed(last.pre, 1) = Lo((last.pre.reg.pc + 2) % 65536)
           /\ reg.s = (last.pre.reg.s + 254) % 256
           /\ reg.pc = ArgW
    /\ (Done(\h60) /\ last.prev.opcode = \h20) =>
           /\ reg.pc = (last.prev.pre.reg.pc + 3) % 65536
           /\ reg.s = last.prev.pre.reg.s

(* C8: RTS has returned behind a JSR that ran with S = 0x00, its pushes    *)
(* wrapping S.                                                             *)
C8_ReturnedAcrossWrap ==
    /\ Done(\h60)
    /\ last.prev.opcode = \h20
    /\ last.prev.pre.reg.s = \h00
    /\ reg.s = \h00
    /\ reg.pc = last.prev.pre.reg.pc + 3

(* The bus reads of JMP (ptr): the byte at ptr, then the byte at           *)
(* (ptr & 0xFF00) | ((ptr + 1) & 0x00FF), from the machine that has        *)
(* fetched the instruction.                                                *)
PtrLo == CPU_readb(loadw_bump(loadb_bump(last.pre).m).m, ArgW)

PtrHi ==
    CPU_readb(PtrLo.m, Or(And(ArgW, \hFF00), And((ArgW + 1) % 65536, \h00FF)))

(* C9: JMP (ptr) completes for every ptr, with PC's low byte the byte at   *)
(* ptr and its high byte the byte at (ptr & 0xFF00) | ((ptr + 1) & 0xFF);  *)
(* JMP (0x30FF) with 0x40 read at 0x30FF and 0x80 at 0x3000 sets PC to     *)
(* 0x8040.                                                                 *)
C9_JmpIndirectEveryPtr ==
    (last.op = "cpu" /\ last.opcode = \h6C) =>
        /\ ~panicked
        /\ reg.pc = PtrLo.v + 256 * PtrHi.v
        /\ (ArgW = \h30FF /\ PtrLo.v = \h40 /\ PtrHi.v = \h80) =>
               reg.pc = \h8040

(* C9: JMP (0xFFFF) has aborted in a build that checks overflow.           *)
C9_JmpAtTopAborts ==
    /\ last.op = "cpu"
    /\ last.opcode = \h6C
    /\ ArgW = \hFFFF
    /\ overflow_checks
    /\ panicked

(* What a ProgMirror cartridge stores before its final load: the value and *)
(* the address of its STA.                                                 *)
Stored ==
    [val |-> Peek(cart.prg_rom, 1),
     addr |-> Peek(cart.prg_rom, 3) + 256 * Peek(cart.prg_rom, 4)]

(* C10: a store of v to a + 0x0800 k, a in 0x0000-0x07FF, changes RAM cell *)
(* a and no other, after which a bus read of a + 0x0800 j returns v for    *)
(* every j in 0..3; and the load a program makes from a mirror of the      *)
(* address it stored v to returns v.                                       *)
C10_RamMirrors ==
    /\ (Done(\h8D) /\ ArgW <= \h1FFF) =>
           /\ ram = Poke(last.pre.ram, ArgW % \h0800, last.pre.reg.a)
           /\ \A j \in 0 .. 3 :
                  CPU_readb(Cur, (ArgW % \h0800) + \h0800 * j).v
                      = last.pre.reg.a
    /\ (/\ Done(\hAD)
        /\ Peek(cart.prg_rom, 2) = \h8D
        /\ ArgW <= \h1FFF
        /\ Stored.addr <= \h1FFF
        /\ ArgW % \h0800 = Stored.addr % \h0800) =>
           reg.a = Stored.val

(* C10: a load from 0x1FFF has returned the 0xA5 stored to 0x07FF.         *)
C10_ReadThroughMirror ==
    /\ Done(\hAD)
    /\ ArgW = \h1FFF
    /\ Stored.addr = \h07FF
    /\ Stored.val = \hA5
    /\ reg.a = \hA5

----------------------------------------------------------------------------
(* PPU registers.  These properties apply the bus operations to every      *)
(* state the register programs reach.                                      *)

PpuWriteSamples == {\h00, \h21, \h9F, \hFF}

(* C11: for every register k in 0..7 and every mirror 0x2000 + k + 8 j, a  *)
(* CPU-bus write and a CPU-bus read at the mirror leave the same machine,  *)
(* and return the same value, as the same access at 0x2000 + k.            *)
C11_PpuRegisterMirrors ==
    \A k \in 0 .. 7, j \in MirrorSamples \ {0} :
        /\ CPU_readb(Cur, PpuReg(k, j)) = CPU_readb(Cur, PpuReg(k, 0))
        /\ \A v \in PpuWriteSamples :
               CPU_writeb(Cur, PpuReg(k, j), v) = CPU_writeb(Cur, PpuReg(k, 0), v)

(* C11: a STA to PPUADDR's last mirror, 0x3FFE, has run with the latch at  *)
(* HI and set the high byte of the PPU's address register.                 *)
C11_WroteThroughLastMirror ==
    /\ Done(\h8D)
    /\ ArgW = \h3FFE
    /\ last.pre.ppu.address_latch = "HI"
    /\ last.pre.ppu.ppuaddr = \h0000
    /\ ppu.ppuaddr = \h2100

(* C12: a read of PPUSTATUS returns the status byte as it was, clears bit  *)
(* 7 so that a second read returns bit 7 = 0, sets the write latch to HI   *)
(* and leaves every other field of the PPU, and the rest of the machine,   *)
(* unchanged: for the read applied to every reachable state, and for every *)
(* LDA from a PPUSTATUS address that has run.                              *)
C12_StatusRead ==
    /\ LET r == PPU_read(Cur, 2)
       IN  /\ r.v = ppu.ppustatus
           /\ r.m = [Cur EXCEPT !.ppu.ppustatus = @ % 128,
                                !.ppu.address_latch = "HI"]
           /\ PPU_read(r.m, 2).v < 128
    /\ (Done(\hAD) /\ ArgW \in \h2000 .. \h3FFF /\ ArgW % 8 = 2) =>
           /\ reg.a = last.pre.ppu.ppustatus
           /\ ppu = [last.pre.ppu EXCEPT !.ppustatus = @ % 128,
                                         !.address_latch = "HI"]
           /\ ram = last.pre.ram /\ cart = last.pre.cart

(* C12: an LDA from PPUSTATUS has run with VBlank set and the latch at LO, *)
(* returned the byte with bit 7 and left bit 7 clear and the latch at HI.  *)
C12_ReadStatusInVBlank ==
    /\ Done(\hAD)
    /\ ArgW = \h2002
    /\ last.pre.ppu.ppustatus >= 128
    /\ last.pre.ppu.address_latch = "LO"
    /\ reg.a = last.pre.ppu.ppustatus
    /\ ppu.ppustatus = last.pre.ppu.ppustatus - 128
    /\ ppu.address_latch = "HI"

(* The register accesses of the latch-reset scenario, applied in order to  *)
(* the machine as constructed.                                             *)
LatchResetScenario ==
    PPU_write(
        PPU_read(
            PPU_write(
                PPU_write(
                    PPU_read(
                        PPU_write(CPU_new(RomImage(<<>>), FALSE), 6, \h3F),
                        2).m,
                    6, \h00),
                6, \h00),
            2).m,
        6, \h21)

(* The program of the latch-reset scenario has run to its last store.      *)
LatchResetProgramRan ==
    /\ \E j \in MirrorSamples : cart = RomImage(ProgLatchReset(j))
    /\ reg.pc = \h8000 + Len(ProgLatchReset(0)) - 1

(* C13 as amended: from the power-up PPU state, write 0x3F to PPUADDR,     *)
(* read PPUSTATUS, write 0x00 to PPUADDR twice, read PPUSTATUS, write 0x21 *)
(* to PPUADDR: the PPU address register is 0x2100.                         *)
C13_LatchResetExample ==
    /\ LatchResetScenario.ppu.ppuaddr = \h2100
    /\ LatchResetProgramRan => ppu.ppuaddr = \h2100

(* C13: the scenario's program has run its last STA PPUADDR, with the      *)
(* latch at HI after the second PPUSTATUS read and 0x21 in A.              *)
C13_LatchResetExampleRan ==
    /\ LatchResetProgramRan
    /\ Done(\h8D)
    /\ reg.a = \h21
    /\ last.pre.ppu.address_latch = "HI"
    /\ last.pre.ppu.ppuaddr = \h0000

(* C13 as stated: the same sequence leaves the PPU address register equal  *)
(* to 0x0021.                                                              *)
C13_LatchResetExampleAsStated ==
    /\ LatchResetScenario.ppu.ppuaddr = \h0021
    /\ LatchResetProgramRan => ppu.ppuaddr = \h0021

(* The machine after a PPUSTATUS read (latch at HI) and the writes of hi   *)
(* and lo to PPUADDR.                                                      *)
AddressSet(m, hi, lo) ==
    PPU_write(PPU_write(PPU_read(m, 2).m, 6, hi), 6, lo)

(* The byte a PPUDATA read fetches: it goes to the read buffer below       *)
(* 0x3F00 and is the value returned from there on.                         *)
Fetched(r, addr) == IF addr < \h3F00 THEN r.m.ppu.ppudata_buffer ELSE r.v

(* C14: with the latch at HI, after hi then lo are written to PPUADDR, a   *)
(* PPUDATA write completes and stores its value at the PPU-bus address     *)
(* hi * 256 + lo, and a PPUDATA read completes and fetches the byte at     *)
(* that address, for every hi and lo.                                      *)
C14_PpuDataAtAssembledAddress ==
    \A hi \in PpuHiSamples, lo \in PpuLoSamples :
        LET m2 == AddressSet(Cur, hi, lo)
            w == PPU_write(m2, 7, \hA5)
            r == PPU_read(m2, 7)
        IN  /\ m2.ppu.ppuaddr = hi * 256 + lo
            /\ ~w.panic
            /\ PPU_readb(w, hi * 256 + lo).v = \hA5
            /\ ~r.m.panic
            /\ Fetched(r, hi * 256 + lo) = PPU_readb(m2, hi * 256 + lo).v

(* C14: a program has written 0x00 then 0x1F to PPUADDR with the latch at  *)
(* HI, and its STA PPUDATA, a write into the pattern tables at 0x001F, has *)
(* aborted.                                                                *)
C14_PatternTableWriteAborts ==
    /\ panicked
    /\ last.op = "cpu"
    /\ last.opcode = \h8D
    /\ ArgW = \h2007
    /\ last.pre.ppu.ppuaddr = \h001F
    /\ PPU_write(last.pre, 7, last.pre.reg.a).panic

(* The byte the PPU bus holds at an address: pattern tables in the         *)
(* cartridge, nametable memory, palette memory, mirrored as documented.    *)
ByteAt(m, addr) ==
    LET b == addr % \h4000
    IN  IF b < \h2000 THEN Cartridge_read(m.cart, b)
        ELSE IF b < \h3F00 THEN Peek(m.ppu.nametables, b % \h0400)
        ELSE Peek(m.ppu.palette_ram_idx, b % \h20)

(* What C15 says of a PPUDATA read that took machine m to r.m and returned *)
(* r.v.                                                                    *)
DataReadAsClaimed(m, r) ==
    /\ ~r.m.panic
    /\ IF m.ppu.ppuaddr < \h3F00
       THEN /\ r.v = m.ppu.ppudata_buffer
            /\ r.m.ppu.ppudata_buffer = ByteAt(m, m.ppu.ppuaddr)
       ELSE r.v = ByteAt(m, m.ppu.ppuaddr)
    /\ r.m.ppu.ppuaddr =
           (m.ppu.ppuaddr + (IF (m.ppu.ppuctrl \div 4) % 2 = 0 THEN 1 ELSE 32))
               % 65536

C16_StatusWriteIsNoOp ==
    /\ \A v \in PpuWriteSamples : PPU_write(Cur, 2, v).ppu = ppu
    /\ (Done(\h8D) /\ ArgW \in \h2000 .. \h3FFF /\ ArgW % 8 = 2) =>
           ppu = last.pre.ppu

(* C16: STA PPUSTATUS has run with A = 0x0A on a status byte of 0x10 and   *)
(* left the status byte at 0x0A.                                           *)
C16_StatusWriteChangedStatus ==
    /\ Done(\h8D)
    /\ ArgW = \h2002
    /\ reg.a = \h0A
    /\ last.pre.ppu.ppustatus = \h10
    /\ ppu.ppustatus = \h0A

----------------------------------------------------------------------------
(* The scanline clock.                                                     *)

VBlankFlag(p) == p.ppustatus >= 128

(* The last ppu.tick took the scanline counter from 240 to 241.            *)
SteppedToVBlank ==
    /\ last.op = "ppu"
    /\ last.pre.ppu.scanline < VBLANK_SCANLINE
    /\ ppu.scanline >= VBLANK_SCANLINE

(* The last operation left the CPU at the entry of the NMI handler with    *)
(* three more bytes on the stack and I set.                                *)
NmiEntered ==
    /\ reg.pc = Vectors[1] + 256 * Vectors[2]
    /\ reg.s = (last.pre.reg.s + 253) % 256
    /\ get_flag(Cur, Flag_I)
    /\ reg # last.pre.reg

(* C17: a ppu.tick sets the VBlank flag when, and only when, it advances   *)
(* the scanline counter to 241, and raises NMI on the CPU at that step if  *)
(* and only if PPUCTRL bit 7 is set then; no cpu.tick sets the flag; the   *)
(* counter advances one scanline at a time and returns to 0 only from 260, *)
(* so it reaches 241 once a frame.                                         *)
C17_VBlankAndNmiAt241 ==
    /\ (last.op = "ppu" /\ ~panicked) =>
           /\ SteppedToVBlank => VBlankFlag(ppu)
           /\ (~SteppedToVBlank /\ VBlankFlag(ppu)) => VBlankFlag(last.pre.ppu)
           /\ NmiEntered <=> (SteppedToVBlank /\ last.pre.ppu.ppuctrl >= 128)
           /\ \/ ppu.scanline = last.pre.ppu.scanline
              \/ ppu.scanline = last.pre.ppu.scanline + 1
              \/ ppu.scanline = 0 /\ last.pre.ppu.scanline = LAST_SCANLINE - 1
    /\ (last.op = "cpu" /\ ~panicked) =>
           /\ VBlankFlag(ppu) => VBlankFlag(last.pre.ppu)
           /\ ppu.scanline = last.pre.ppu.scanline
    /\ ppu.scanline < LAST_SCANLINE

(* C17: a ppu.tick has advanced the counter from 240 to 241 with PPUCTRL   *)
(* bit 7 set: the VBlank flag went from clear to set and the CPU is at the *)
(* NMI handler.                                                            *)
C17_VBlankSetAndNmiRaised ==
    /\ last.op = "ppu"
    /\ last.pre.ppu.scanline = 240
    /\ ppu.scanline = 241
    /\ ~VBlankFlag(last.pre.ppu)
    /\ VBlankFlag(ppu)
    /\ ppu.ppuctrl >= 128
    /\ NmiEntered

(* CPU cycles that see a frame through from any point of it: the 261      *)
(* scanlines and the one the PPU may be behind by.                         *)
FrameCycles == (LAST_SCANLINE + 1) * CYCLES_PER_SCANLINE

(* Scanline steps the last ppu.tick made.                                  *)
ScanlineSteps == (ppu.cycles - last.pre.ppu.cycles) \div CYCLES_PER_SCANLINE

(* After a ppu.tick, frame_complete is true if and only if the scanline    *)
(* counter wrapped from 261 to 0 in that call, and then VBlank is clear;   *)
(* the counter is its old value plus the steps made, modulo 261; a         *)
(* cpu.tick leaves the flag and the counter alone.                         *)
FrameCompleteIffWrapped ==
    /\ (last.op = "ppu" /\ ~panicked) =>
           /\ ppu.frame_complete <=>
                  last.pre.ppu.scanline + ScanlineSteps >= LAST_SCANLINE
           /\ ppu.scanline =
                  (last.pre.ppu.scanline + ScanlineSteps) % LAST_SCANLINE
           /\ ppu.cycles =
                  last.pre.ppu.cycles + ScanlineSteps * CYCLES_PER_SCANLINE
           /\ ppu.frame_complete =>
                  ~VBlankFlag(ppu) /\ ppu.scanline < VBLANK_SCANLINE
    /\ (last.op = "cpu" /\ ~panicked) =>
           /\ ppu.frame_complete = last.pre.ppu.frame_complete
           /\ ppu.scanline = last.pre.ppu.scanline
    /\ ppu.scanline < LAST_SCANLINE

(* C18: frame_complete is true after a ppu.tick exactly when the scanline  *)
(* counter reached 261 in that call, where VBlank is cleared and the       *)
(* counter returns to 0; and as long as the CPU's cycle counter still has  *)
(* a frame's worth of cycles to go, frame_complete becomes true again      *)
(* after every tick that cleared it.                                       *)
C18_FrameCompleteAgainAndAgain ==
    /\ []FrameCompleteIffWrapped
    /\ [](~ppu.frame_complete /\ cycles + FrameCycles <= MaxCycles
              => <>ppu.frame_complete)

(* C18: a second frame has completed: the counter has wrapped to 0 in a    *)
(* ppu.tick that began more than a frame's worth of cycles into the run.   *)
C18_SecondFrameComplete ==
    /\ last.op = "ppu"
    /\ ppu.frame_complete
    /\ last.pre.ppu.scanline = LAST_SCANLINE - 1
    /\ ppu.scanline = 0
    /\ ppu.cycles = 2 * LAST_SCANLINE * CYCLES_PER_SCANLINE

----------------------------------------------------------------------------
(* The MMC1 serial port.                                                   *)

(* The four registers in the order bits 14-13 of an address select them:   *)
(* control, the CHR bank of the lower pattern table (the source's          *)
(* chr_bank_1), the CHR bank of the upper one (chr_bank_2), the PRG bank.  *)
Mmc1Registers(c) == <<c.control, c.chr_bank_1, c.chr_bank_2, c.prg_bank>>

(* The value five serial bits assemble to, the first written lowest.       *)
Assembled(bits) ==
    bits[1] + 2 * bits[2] + 4 * bits[3] + 8 * bits[4] + 16 * bits[5]

(* The last operation was the fifth of five bit-7-clear writes in a row.   *)
FifthWrite == last.op = "writeb" /\ Len(last.bits) = 5

(* C19: after the fifth of five consecutive bit-7-clear writes, the        *)
(* register selected by bits 14-13 of that write's address holds the five  *)
(* low bits assembled first-written-lowest, and the other three registers  *)
(* are as they were before the write.                                      *)
C19_FifthWriteCommitsAssembledValue ==
    FifthWrite =>
        Mmc1Registers(cart) =
            [Mmc1Registers(last.pre.cart)
                 EXCEPT ![((last.addr \div \h2000) % 4) + 1] =
                            Assembled(last.bits)]

(* C19: five writes of 0x01 in a row, the fifth to 0x8000, have been made  *)
(* and the control register is still 0, not 0b11111.                       *)
C19_ControlNeverWritten ==
    /\ FifthWrite
    /\ last.addr = \h8000
    /\ last.bits = <<1, 1, 1, 1, 1>>
    /\ cart.control = 0
    /\ Mmc1Registers(cart) = Mmc1Registers(last.pre.cart)

(* The reference shift register after the given serial bits, from 0b10000. *)
RECURSIVE RefShift(_)
RefShift(bits) ==
    IF bits = <<>> THEN \h10
    ELSE IF Len(bits) = 5 THEN \h10
    ELSE RefShift(SubSeq(bits, 1, Len(bits) - 1)) \div 2
             + 16 * bits[Len(bits)]

(* C20: the shift register starts at 0b10000; a write with bit 7 set       *)
(* leaves it at 0b10000; a write with bit 7 clear leaves it at             *)
(* (shift >> 1) | ((value & 1) << 4), but the fifth in a row at 0b10000;   *)
(* it is always in 1..31 and equal to the reference machine's register;    *)
(* and the write that finds the marker bit at the bottom, the only one to  *)
(* touch the registers and bank offsets, is the fifth in a row, always.    *)
C20_ShiftRegisterStateMachine ==
    /\ cart.shift_register \in 1 .. 31
    /\ cart.shift_register = RefShift(last.bits)
    /\ last.op = "new" => cart.shift_register = \h10
    /\ last.op = "writeb" =>
           /\ last.val >= \h80 =>
                  /\ cart.shift_register = \h10
                  /\ Mmc1Registers(cart) = Mmc1Registers(last.pre.cart)
                  /\ cart.prg_offsets = last.pre.cart.prg_offsets
           /\ (last.val < \h80 /\ Len(last.bits) < 5) =>
                  /\ cart.shift_register =
                         Or(last.pre.cart.shift_register \div 2,
                            And(last.val, \h01) * 16)
                  /\ Mmc1Registers(cart) = Mmc1Registers(last.pre.cart)
                  /\ cart.prg_offsets = last.pre.cart.prg_offsets
                  /\ last.pre.cart.shift_register % 2 = 0
           /\ Len(last.bits) = 5 =>
                  /\ cart.shift_register = \h10
                  /\ last.pre.cart.shift_register % 2 = 1

(* C20: a fifth write in a row, to 0xE000 with value 0x0F, has returned    *)
(* the shift register from 0b11111 to 0b10000 and selected PRG bank 15.    *)
C20_FifthWriteReturnsToStart ==
    /\ FifthWrite
    /\ last.addr = \hE000
    /\ last.val = \h0F
    /\ last.pre.cart.shift_register = \h1F
    /\ cart.shift_register = \h10
    /\ last.pre.cart.prg_bank # \h0F
    /\ cart.prg_bank = \h0F

(* C21: a write whose value has bit 7 set leaves the shift register at     *)
(* 0b10000, the control register at its old value with 0x0C ORed in (PRG   *)
(* mode 3), and both CHR bank registers and the PRG bank register as they  *)
(* were.                                                                   *)
C21_ResetWriteSetsPrgMode3 ==
    (last.op = "writeb" /\ last.val >= \h80) =>
        /\ cart.shift_register = \h10
        /\ cart.control = Or(last.pre.cart.control, \h0C)
        /\ And(cart.control, \h0C) \div 4 = 3
        /\ cart.chr_bank_1 = last.pre.cart.chr_bank_1
        /\ cart.chr_bank_2 = last.pre.cart.chr_bank_2
        /\ cart.prg_bank = last.pre.cart.prg_bank

(* C21: 0x80 has been written to 0x8000 in the middle of a run of serial   *)
(* writes; the shift register is back at 0b10000 and the control register  *)
(* is still 0.                                                             *)
C21_ResetWriteLeftControl ==
    /\ last.op = "writeb"
    /\ last.val = \h80
    /\ last.addr = \h8000
    /\ last.pre.cart.shift_register = \h1C
    /\ cart.shift_register = \h10
    /\ cart.control = 0

(* The PRG offsets of the windows at 0x8000 and 0xC000 that the control    *)
(* register's bits 3-2 and the PRG bank register dictate, banks counted    *)
(* in 16 KiB units modulo the number of units in the image.                *)
DerivedPrgOffsets(c) ==
    LET mode == And(c.control, \h0C) \div 4
        at(bank) == (bank % c.prg_rom_size) * \h4000
    IN  CASE mode \in {0, 1} ->
                 (0 :> at(And(c.prg_bank, \h0E))
                  @@ 1 :> at(And(c.prg_bank, \h0E) + 1))
          [] mode = 2 -> (0 :> at(0) @@ 1 :> at(c.prg_bank))
          [] mode = 3 -> (0 :> at(c.prg_bank) @@ 1 :> at(c.prg_rom_size - 1))

PrgWindowSamples ==
    {\h8000, \h8001, \hBFFF, \hC000, \hC001, \hFFFA, \hFFFB, \hFFFD, \hFFFF}

(* C22: in every state of an MMC1 cartridge, the one before any mapper     *)
(* write included, the stored PRG offsets are the ones derived from the    *)
(* control and PRG bank registers, and a CPU read in 0x8000-0xFFFF returns *)
(* the PRG byte of the derived bank at the address's offset in its window. *)
C22_PrgOffsetsFollowRegisters ==
    /\ cart.prg_offsets = DerivedPrgOffsets(cart)
    /\ \A addr \in PrgWindowSamples :
           CPU_readb(Cur, addr).v =
               Peek(cart.prg_rom,
                    DerivedPrgOffsets(cart)[(addr - \h8000) \div \h4000]
                        + (addr % \h4000))

(* C22: an MMC1 cartridge with two PRG units, before any mapper write:     *)
(* mode 0 and PRG bank 0, yet the window at 0xC000 is at offset 0, and a   *)
(* read of 0xFFFD returns byte 0x3FFD of the image, not byte 0x7FFD.       *)
C22_SecondWindowOnFirstBank ==
    /\ last.op = "new"
    /\ cart.prg_rom_size = 2
    /\ cart.control = 0
    /\ cart.prg_bank = 0
    /\ cart.prg_offsets[1] = 0
    /\ CPU_readb(Cur, \hFFFD).v = Peek(cart.prg_rom, \h3FFD)
    /\ Peek(cart.prg_rom, \h3FFD) # Peek(cart.prg_rom, \h7FFD)

(* After the first run of five writes the stored offsets are the derived   *)
(* ones.                                                                   *)
PrgOffsetsFollowAfterCommit ==
    (FifthWrite \/ cart.prg_offsets # last.pre.cart.prg_offsets) =>
        cart.prg_offsets = DerivedPrgOffsets(cart)

----------------------------------------------------------------------------
(* NROM and CNROM.                                                         *)

(* C23: on an NROM cartridge a CPU write of any value to 0x8000-0xFFFF     *)
(* returns without aborting and leaves the cartridge and every later read  *)
(* as they were: for the write applied to every reachable state, and for   *)
(* every STA to such an address that has run.                              *)
C23_NromWriteIgnored ==
    cart.mapper = 0 =>
        /\ \A w \in RomWriteAddrs, v \in {\h00, \hA5, \hFF} :
               LET n == CPU_writeb(Cur, w, v)
               IN  /\ ~n.panic
                   /\ n.cart = cart
                   /\ \A r \in PrgWindowSamples :
                          CPU_readb(n, r).v = CPU_readb(Cur, r).v
        /\ (last.op = "cpu" /\ last.opcode = \h8D /\ ArgW >= \h8000) =>
               /\ ~panicked
               /\ cart = last.pre.cart

(* C23: STA $8000 has run on an NROM cartridge and aborted the process.    *)
C23_NromWriteAborted ==
    /\ cart.mapper = 0
    /\ last.op = "cpu"
    /\ last.opcode = \h8D
    /\ ArgW = \h8000
    /\ last.pre.reg.a = \hA5
    /\ panicked

PrgOffsetSamples ==
    {\h0000, \h0001, \h0002, \h0040, \h3F00, \h3FFA, \h3FFC, \h3FFD, \h3FFF}

(* The image has JMP $8000 in its first three bytes and the reset vector   *)
(* 0x8000 at the end.                                                      *)
SelfJumpImage(c) ==
    /\ Peek(c.prg_rom, 0) = \h4C
    /\ Peek(c.prg_rom, 1) = \h00
    /\ Peek(c.prg_rom, 2) = \h80
    /\ Peek(c.prg_rom, \h4000 * c.prg_rom_size - 4) = \h00
    /\ Peek(c.prg_rom, \h4000 * c.prg_rom_size - 3) = \h80

(* C24: on an NROM cartridge of one PRG unit a CPU read of 0x8000 + o and  *)
(* of 0xC000 + o both return PRG byte o, for o < 0x4000; with two units a  *)
(* read of 0x8000 + o returns PRG byte o, for o < 0x8000; and on an image  *)
(* with JMP $8000 at its start and the reset vector 0x8000 at its end, PC  *)
(* is 0x8000 after construction and after every tick.                      *)
C24_NromPrgMirroring ==
    cart.mapper = 0 =>
        /\ cart.prg_rom_size = 1 =>
               \A o \in PrgOffsetSamples :
                   /\ CPU_readb(Cur, \h8000 + o).v = Peek(cart.prg_rom, o)
                   /\ CPU_readb(Cur, \hC000 + o).v = Peek(cart.prg_rom, o)
        /\ cart.prg_rom_size = 2 =>
               \A o \in PrgOffsetSamples \cup {\h4000 + p : p \in PrgOffsetSamples} :
                   CPU_readb(Cur, \h8000 + o).v = Peek(cart.prg_rom, o)
        /\ (SelfJumpImage(cart) /\ last.op \in {"new", "cpu"}) =>
               reg.pc = \h8000

(* C24: the first tick on the one-unit self-jump image has run, from PC =  *)
(* 0x8000 to PC = 0x8000.                                                  *)
C24_SelfJumpTicked ==
    /\ cart.mapper = 0
    /\ cart.prg_rom_size = 1
    /\ SelfJumpImage(cart)
    /\ last.op = "cpu"
    /\ last.opcode = \h4C
    /\ last.pre.cycles = 0
    /\ last.pre.reg.pc = \h8000
    /\ reg.pc = \h8000
    /\ cycles > 0

(* An NROM cartridge with the PRG and CHR ROM of cartridge c.              *)
NromLike(c) ==
    [mapper |-> 0, prg_rom_size |-> c.prg_rom_size,
     chr_rom_size |-> c.chr_rom_size, prg_rom |-> c.prg_rom,
     chr_rom |-> c.chr_rom]

(* C25: on a CNROM cartridge a CPU write of v to an address in             *)
(* 0x8000-0xFFFF selects CHR bank v & 3 whatever the address, so that the  *)
(* PPU reads that bank's bytes, and a CPU read in 0x8000-0xFFFF returns    *)
(* the byte an NROM cartridge with the same PRG ROM returns.               *)
C25_CnromBankSelectAndPrg ==
    cart.mapper = 3 =>
        /\ last.op = "writeb" =>
               /\ ~panicked
               /\ cart.selected_bank = And(last.val, \h03)
               /\ cart.chr_rom_size = 4 =>
                      PPU_readb(Cur, 0).v = \h11 * (And(last.val, \h03) + 1)
        /\ \A a \in CartAddrs \cup PrgWindowSamples :
               /\ ~CPU_readb(Cur, a).m.panic
               /\ CPU_readb(Cur, a).v = Mapper000_readb(NromLike(cart), a)
        /\ last.op = "readb" =>
               last.val = Mapper000_readb(NromLike(last.pre.cart), last.addr)

(* C25: 0x00 has been written to 0xC002 on a CNROM cartridge of four CHR   *)
(* units, and CHR bank 2 is selected: the PPU reads 0x33 at 0x0000.        *)
C25_BankFromAddress ==
    /\ cart.mapper = 3
    /\ cart.chr_rom_size = 4
    /\ last.op = "writeb"
    /\ last.addr = \hC002
    /\ last.val = \h00
    /\ cart.selected_bank = 2
    /\ PPU_readb(Cur, 0).v = \h33

(* C26: on a cartridge without CHR ROM, whichever the mapper, a PPU-bus    *)
(* write of v to an address in 0x0000-0x1FFF followed by a PPU-bus read of *)
(* the address returns v and neither aborts: for the pair applied to every *)
(* reachable state, and for every such write and read that has been made.  *)
C26_ChrRamWriteThenRead ==
    cart.chr_rom_size = 0 =>
        /\ \A a \in ChrAddrs, v \in {\h00, \hA5} :
               LET w == PPU_writeb(Cur, a, v)
               IN  /\ ~w.panic
                   /\ ~PPU_readb(w, a).m.panic
                   /\ PPU_readb(w, a).v = v
        /\ last.op \in {"ppu_writeb", "ppu_readb"} => ~panicked
        /\ (/\ last.op = "ppu_readb"
            /\ last.prev.op = "ppu_writeb"
            /\ last.prev.addr = last.addr) => last.val = last.prev.val

(* C26: on an MMC1 cartridge without CHR ROM, 0xA5 has been written to PPU *)
(* address 0x0000 and the read of 0x0000 that followed has aborted.        *)
C26_ChrReadAborted ==
    /\ cart.mapper = 1
    /\ cart.chr_rom_size = 0
    /\ last.prev.op = "ppu_writeb"
    /\ last.prev.addr = 0
    /\ last.prev.val = \hA5
    /\ last.op = "ppu_readb"
    /\ last.addr = 0
    /\ panicked

(* What each mapper does with the pair on an image without CHR ROM: NROM   *)
(* and CNROM abort on the write; MMC1 drops the write and aborts on the    *)
(* read; an NROM read alone returns 0.                                     *)
ChrRamAbsent ==
    cart.chr_rom_size = 0 =>
        \A a \in ChrAddrs :
            /\ cart.mapper \in {0, 3} => PPU_writeb(Cur, a, \hA5).panic
            /\ cart.mapper = 1 =>
                   /\ PPU_writeb(Cur, a, \hA5) = Cur
                   /\ PPU_readb(Cur, a).m.panic
            /\ cart.mapper = 0 =>
                   /\ ~PPU_readb(Cur, a).m.panic
                   /\ PPU_readb(Cur, a).v = 0

----------------------------------------------------------------------------
(* The I/O registers at 0x4014-0x4017.                                     *)

(* OAM of machine n holds the 256 bytes machine m has on the CPU bus from  *)
(* page p on.                                                              *)
OamIsPage(n, m, p) ==
    \A i \in 0 .. 255 : Peek(n.ppu.oam, i) = CPU_readb(m, p * 256 + i).v

(* C27: a CPU-bus write of p to 0x4014 leaves in OAM[i] the byte at CPU    *)
(* address (p << 8) + i, for every i in 0..255: for the write applied to   *)
(* every reachable state, and for every STA $4014 that has run.            *)
C27_OamDmaCopiesPage ==
    /\ \A p \in {\h02, \h07} :
           /\ ~CPU_writeb(Cur, \h4014, p).panic
           /\ OamIsPage(CPU_writeb(Cur, \h4014, p), Cur, p)
    /\ (last.op = "cpu" /\ last.opcode = \h8D /\ ArgW = \h4014) =>
           /\ ~panicked
           /\ OamIsPage(Cur, last.pre, last.pre.reg.a)

(* C27: with 0x5A at 0x0700 and at 0x07FF, STA $4014 has run with A = 0x07 *)
(* and OAM is still all zeros; the 0x07 is in the APU register array.      *)
C27_DmaWriteLeftOam ==
    /\ last.op = "cpu"
    /\ last.opcode = \h8D
    /\ ArgW = \h4014
    /\ last.pre.reg.a = \h07
    /\ ~panicked
    /\ Peek(ram, \h0700) = \h5A
    /\ Peek(ram, \h07FF) = \h5A
    /\ ppu.oam = Zeroed
    /\ Peek(apu, \h4014 % \h18) = \h07

(* Button i of a controller in the order A, B, Select, Start, Up, Down,    *)
(* Left, Right.                                                            *)
ButtonAt(j, i) ==
    <<j.a, j.b, j.select, j.start, j.up, j.down, j.left, j.right>>[i + 1]

(* C29: the read index is always in 0..8 and is 0 after reset(); the n-th  *)
(* state() call since the reset, for n <= 8, returns the value the n-th    *)
(* button in the order A, B, Select, Start, Up, Down, Left, Right has at   *)
(* the call, and every later call returns true.                            *)
C29_JoypadReadOrder ==
    /\ joypad_1.strobe \in 0 .. 8
    /\ last.op = "reset" => joypad_1.strobe = 0
    /\ last.op = "state" =>
           /\ last.reads <= 8 =>
                  /\ last.val = ButtonAt(joypad_1, last.reads - 1)
                  /\ joypad_1.strobe = last.reads
           /\ last.reads > 8 =>
                  /\ last.val = TRUE
                  /\ joypad_1.strobe = 8

(* C29: after a reset(), with Start pressed and every other button         *)
(* released, the ninth state() call has returned true.                     *)
C29_NinthReadReturnedTrue ==
    /\ last.op = "state"
    /\ last.armed
    /\ last.reads = 9
    /\ last.val = TRUE
    /\ joypad_1 = [Joypad_default EXCEPT !.start = TRUE, !.strobe = 8]

(* C28: after a strobe through 0x4016, the n-th load from 0x4016, for n <= *)
(* 8, returns in bit 0 the value the n-th button of controller 1 has at    *)
(* the load and advances that controller's read index to n; loads from     *)
(* 0x4017 do the same with controller 2.                                   *)
C28_PortReadsButtons ==
    (last.op = "readb" /\ last.stage = "armed" /\ ~panicked) =>
        /\ (last.addr = \h4016 /\ last.n1 <= 8) =>
               /\ last.val % 2 = (IF ButtonAt(joypad_1, last.n1 - 1)
                                  THEN 1 ELSE 0)
               /\ joypad_1.strobe = last.n1
        /\ (last.addr = \h4017 /\ last.n2 <= 8) =>
               /\ last.val % 2 = (IF ButtonAt(joypad_2, last.n2 - 1)
                                  THEN 1 ELSE 0)
               /\ joypad_2.strobe = last.n2

(* C28: with A pressed on controller 1, 0x01 and then 0x00 have been       *)
(* written to 0x4016, and the first load from 0x4016 has returned 0.       *)
C28_FirstReadMissedA ==
    /\ last.op = "readb"
    /\ last.stage = "armed"
    /\ last.addr = \h4016
    /\ last.n1 = 1
    /\ joypad_1.a
    /\ last.val = 0
    /\ joypad_1.strobe = 0
    /\ ~panicked

(* What the ports do instead: a load returns the byte last stored at the   *)
(* port (0 if none), and the controllers are not touched.                  *)
PortsAreStorage ==
    /\ joypad_1.strobe = 0
    /\ joypad_2.strobe = 0
    /\ last.op = "readb" =>
           last.val = Peek(apu, last.addr % \h18)

----------------------------------------------------------------------------
(* The sprite pre-scan.                                                    *)

(* The OAM entries of machine m whose Y puts them on its scanline: Y + 1   *)
(* <= scanline < Y + 1 + 8.                                                *)
Overlapping(m) ==
    {i \in 0 .. 63 : /\ Peek(m.ppu.oam, 4 * i) + 1 <= m.ppu.scanline
                     /\ m.ppu.scanline < Peek(m.ppu.oam, 4 * i) + 1 + 8}

(* The first k members of a set of OAM indices, in OAM order.              *)
FirstOf(set, k) ==
    [r \in 1 .. k |->
        CHOOSE i \in set : Cardinality({j \in set : j < i}) = r - 1]

SmallerOf(a, b) == IF a < b THEN a ELSE b

(* C30: the pre-scan of a visible scanline returns the first min(n, 8)     *)
(* overlapping OAM entries in OAM order, n being the number of entries     *)
(* with Y + 1 <= scanline < Y + 1 + 8, and leaves the sprite-overflow bit  *)
(* of the status byte set if and only if n > 8.                            *)
C30_PreScanKeepsFirstEight ==
    (last.op = "get_scanline_sprite_pixels"
         /\ And(last.pre.ppu.ppustatus, \h40) = 0) =>
        LET set == Overlapping(last.pre)
            n == Cardinality(set)
            first == FirstOf(set, SmallerOf(n, 8))
        IN  /\ Len(last.out) = SmallerOf(n, 8)
            /\ \A r \in 1 .. SmallerOf(n, 8) :
                   /\ r <= Len(last.out)
                   /\ last.out[r] =
                          [y |-> Peek(last.pre.ppu.oam, 4 * first[r]) + 1,
                           tile_index |-> Peek(last.pre.ppu.oam, 4 * first[r] + 1),
                           attributes |-> Peek(last.pre.ppu.oam, 4 * first[r] + 2),
                           x |-> Peek(last.pre.ppu.oam, 4 * first[r] + 3)]
            /\ (And(ppu.ppustatus, \h40) # 0) <=> (n > 8)

(* C30: nine OAM entries overlap scanline 0x11; the pre-scan has returned  *)
(* all nine and left the sprite-overflow bit clear.                        *)
C30_NineKeptWithoutOverflow ==
    /\ last.op = "get_scanline_sprite_pixels"
    /\ last.pre.ppu.scanline = \h11
    /\ Cardinality(Overlapping(last.pre)) = 9
    /\ Len(last.out) = 9
    /\ last.out[9].tile_index = 16
    /\ And(ppu.ppustatus, \h40) = 0

(* What the pre-scan does: it keeps the first nine and sets the overflow   *)
(* bit from the eleventh on, counting entries by (Y + 1) mod 256.          *)
PreScanKeepsFirstNine ==
    last.op = "get_scanline_sprite_pixels" =>
        LET y == last.pre.ppu.scanline
            top(i) == (Peek(last.pre.ppu.oam, 4 * i) + 1) % 256
            set == {i \in 0 .. 63 : top(i) <= y /\ y < top(i) + 8}
            n == Cardinality(set)
        IN  /\ Len(last.out) = SmallerOf(n, 9)
            /\ \A r \in 1 .. Len(last.out) :
                   last.out[r].tile_index = FirstOf(set, Len(last.out))[r]
            /\ (And(ppu.ppustatus, \h40) # 0) <=>
                   (n > 9 \/ And(last.pre.ppu.ppustatus, \h40) # 0)

----------------------------------------------------------------------------
(* Single instructions.                                                    *)

(* C37: TXS leaves S equal to X and P as it was, for every X: for the      *)
(* handler applied to every reachable state, and for every TXS that has    *)
(* run.                                                                    *)
C37_TxsLeavesFlags ==
    /\ txs(Cur, "Implied").m.reg.s = reg.x
    /\ txs(Cur, "Implied").m.reg.p = reg.p
    /\ Done(\h9A) =>
           /\ reg.s = last.pre.reg.x
           /\ reg.p = last.pre.reg.p

(* C37: TXS has run with X = 0x00 while the Z flag was clear, and has set  *)
(* the Z flag.                                                             *)
C37_TxsSetZero ==
    /\ Done(\h9A)
    /\ last.pre.reg.x = \h00
    /\ ~get_flag(last.pre, Flag_Z)
    /\ reg.s = \h00
    /\ get_flag(Cur, Flag_Z)

----------------------------------------------------------------------------
(* The scanline counter and the VBlank flag between ticks.                 *)

RegisterWriteSamples == {\h00, \h1F, \h7F, \h80, \hE0, \hFF}

(* C39: in every state between ppu.tick calls, whatever CPU accesses to    *)
(* the PPU's registers came in between, the scanline counter is within     *)
(* 0..260 and PPUSTATUS bit 7 is set only while the counter is within      *)
(* 241..260; a write of any value to any of the eight registers leaves     *)
(* bit 7 and the counter as they are, and a read can only clear the bit.   *)
C39_VBlankOnlyInWindow ==
    /\ ppu.scanline \in 0 .. 260
    /\ VBlankFlag(ppu) => ppu.scanline \in 241 .. 260
    /\ \A r \in 0 .. 7, val \in RegisterWriteSamples :
           LET w == PPU_write(Cur, r, val)
           IN  ~w.panic => /\ VBlankFlag(w.ppu) <=> VBlankFlag(ppu)
                           /\ w.ppu.scanline = ppu.scanline
    /\ \A r \in 0 .. 7 :
           LET rd == PPU_read(Cur, r).m
           IN  ~rd.panic => /\ VBlankFlag(rd.ppu) => VBlankFlag(ppu)
                            /\ rd.ppu.scanline = ppu.scanline
    /\ (last.op = "cpu" /\ ~panicked) =>
           /\ VBlankFlag(ppu) => VBlankFlag(last.pre.ppu)
           /\ last.opcode = \h8D => (VBlankFlag(ppu) <=> VBlankFlag(last.pre.ppu))

(* C39: a register write (STA PPUSCROLL) ran on the last scanline of the   *)
(* VBlank window with the flag set, and the flag is still set.             *)
C39_WroteRegisterInVBlank ==
    /\ Done(\h8D)
    /\ ArgW \in \h2000 .. \h3FFF
    /\ ppu.scanline \in 241 .. 260
    /\ VBlankFlag(last.pre.ppu)
    /\ VBlankFlag(ppu)

(* C40: the PPU's cycle accumulator is a multiple of 114 and never ahead   *)
(* of the CPU's cycle counter; after every ppu.tick it trails the counter  *)
(* by less than 114, so it is 114 * floor(cpu cycles / 114), and every 114 *)
(* cycles accounted in the call advanced the scanline counter one step.    *)
C40_PpuCyclesTrailCpu ==
    /\ CYCLES_PER_SCANLINE = 114
    /\ ppu.cycles % 114 = 0
    /\ ppu.cycles <= cycles
    /\ (last.op = "ppu" /\ ~panicked) =>
           /\ cycles - ppu.cycles < 114
           /\ ppu.cycles = 114 * (cycles \div 114)
           /\ ppu.scanline =
                  (last.pre.ppu.scanline
                     + (ppu.cycles - last.pre.ppu.cycles) \div 114)
                        % LAST_SCANLINE
           /\ ppu.scanline = (cycles \div 114) % LAST_SCANLINE

(* C40: in the second frame a ppu.tick made one scanline step and left the *)
(* accumulator strictly behind the CPU's counter.                          *)
C40_SteppedAndStillBehind ==
    /\ last.op = "ppu"
    /\ ~panicked
    /\ ppu.cycles = last.pre.ppu.cycles + 114
    /\ ppu.cycles > LAST_SCANLINE * 114
    /\ cycles - ppu.cycles \in 1 .. 113
    /\ ppu.scanline = last.pre.ppu.scanline + 1

----------------------------------------------------------------------------
(* Nametables and sprites.                                                 *)

NametableOffsets == {\h000, \h005, \h0FF, \h3BF, \h3FF}

(* C31: PPU-bus addresses 0x2000-0x2FFF are four distinct 1 KiB            *)
(* nametables, selected by (addr >> 10) & 3: a write of any byte at        *)
(* 0x2000 + a, a < 0x400, leaves the bytes read at 0x2400 + a, 0x2800 + a  *)
(* and 0x2C00 + a as they were, and is read back at 0x2000 + a; so for a   *)
(* program that writes PPUDATA at 0x2000 + a and then reads PPUDATA twice  *)
(* at 0x2000 + 0x400 k + a, the second read returns the byte written if    *)
(* k = 0 and the 0 the other nametable still holds otherwise; and the      *)
(* background's tile indices come from the nametable PPUCTRL bits 0-1      *)
(* select.                                                                 *)
C31_FourDistinctNametables ==
    /\ \A a \in NametableOffsets, val \in {\h00, \hA5} :
           LET w == PPU_writeb(Cur, \h2000 + a, val)
           IN  /\ PPU_readb(w, \h2000 + a).v = val
               /\ \A k \in 1 .. 3 :
                      PPU_readb(w, \h2000 + \h0400 * k + a).v
                          = PPU_readb(Cur, \h2000 + \h0400 * k + a).v
    /\ \A i \in 0 .. 31 :
           (TileIndexAddress(Cur, i) \div \h0400) % 4 = And(ppu.ppuctrl, \h03)
    /\ (Done(\hAD) /\ ArgW = \h2007 /\ last.prev.opcode = \hAD) =>
           LET addr == (last.pre.ppu.ppuaddr + 65535) % 65536
           IN  reg.a = IF addr < \h2400
                       THEN Peek(ppu.nametables, addr % \h0400)
                       ELSE 0

(* C31: the program wrote 0xA5 through PPUDATA at 0x2005 and has read it   *)
(* back through PPUDATA at 0x2405.                                         *)
C31_WriteSeenInSecondNametable ==
    /\ Done(\hAD)
    /\ ArgW = \h2007
    /\ last.prev.opcode = \hAD
    /\ last.pre.ppu.ppuaddr = \h2406
    /\ Peek(ppu.nametables, \h005) = \hA5
    /\ reg.a = \hA5

(* C35: Sprite::flip is Vertical for attribute bits (7, 6) = (1, 0),       *)
(* Horizontal for (0, 1), Both for (1, 1) and None for (0, 0), for every   *)
(* OAM entry of every state a scanline is rendered from.                   *)
C35_FlipFromAttributeBits ==
    \A i \in 0 .. 63 :
        LET sprite == OamSprite(Cur, i)
            bit7 == And(sprite.attributes, \h80) # 0
            bit6 == And(sprite.attributes, \h40) # 0
        IN  Sprite_flip(sprite) =
                CASE bit7 /\ ~bit6 -> "Vertical"
                  [] ~bit7 /\ bit6 -> "Horizontal"
                  [] bit7 /\ bit6 -> "Both"
                  [] OTHER -> "None"

(* C35: a scanline has been rendered with a sprite on it whose attribute   *)
(* byte is 0x80, and flip() of that sprite is None.                        *)
C35_VerticalBitGivesNone ==
    /\ last.op = "render_scanline"
    /\ ~panicked
    /\ \E i \in RenderEntries :
           /\ i \in Overlapping(last.pre)
           /\ OamSprite(Cur, i).attributes = \h80
           /\ Sprite_flip(OamSprite(Cur, i)) = "None"

SpriteZeroHit(p) == And(p.ppustatus, \h40) # 0

(* OAM entry 0 has an opaque pixel at column x of the scanline: the entry  *)
(* covers the scanline and the column, and its pattern, with the rows and  *)
(* columns mirrored as attribute bits 7 and 6 say, is non-zero there.      *)
EntryZeroOpaqueAt(m, x) ==
    LET sprite == OamSprite(m, 0)
        dy == m.ppu.scanline - sprite.y
        dx == x - sprite.x
        row == IF And(sprite.attributes, \h80) # 0 THEN 7 - dy ELSE dy
        bit == IF And(sprite.attributes, \h40) # 0 THEN dx ELSE 7 - dx
        addr == 16 * sprite.tile_index + foreground_offset(m) + row
    IN  /\ dy \in 0 .. 7
        /\ dx \in 0 .. 7
        /\ And(m.ppu.ppumask, \h10) # 0
        /\ And(m.ppu.ppumask, \h04) # 0 \/ x >= 8
        /\ \/ (Cartridge_read(m.cart, addr) \div (2 ^ bit)) % 2 = 1
           \/ (Cartridge_read(m.cart, addr + 8) \div (2 ^ bit)) % 2 = 1

(* The background has an opaque pixel at column x of the scanline.         *)
BackgroundOpaqueAt(m, x) ==
    LET bg == get_background_pixel(m, get_scanline_background_pixels(m), x)
    IN  bg.kind = "Some" /\ bg.color_idx # 0

(* C36: rendering a scanline sets PPUSTATUS bit 6 only when an opaque      *)
(* pixel of OAM entry 0 lies on an opaque background pixel: not for any    *)
(* other entry, and not over a transparent or disabled background.         *)
C36_SpriteZeroHitOnlyOnOverlap ==
    (last.op = "render_scanline" /\ ~panicked
         /\ SpriteZeroHit(ppu) /\ ~SpriteZeroHit(last.pre.ppu)) =>
        \E x \in 0 .. SCREEN_WIDTH - 1 :
            /\ EntryZeroOpaqueAt(last.pre, x)
            /\ BackgroundOpaqueAt(last.pre, x)

(* C36: a scanline has been rendered with the background disabled and OAM  *)
(* entry 0 hidden; entry 5, tile 0, was on it, and bit 6 has been set.     *)
C36_HitWithoutSpriteZeroOrBackground ==
    /\ last.op = "render_scanline"
    /\ ~panicked
    /\ ~render_background(last.pre)
    /\ Overlapping(last.pre) = {5}
    /\ ~SpriteZeroHit(last.pre.ppu)
    /\ SpriteZeroHit(ppu)

----------------------------------------------------------------------------
(* Addressing modes, read-modify-write instructions and cycle counts.      *)

(* The little-endian word at the zero-page bytes p and (p + 1) mod 256.    *)
ZeroPagePointer(m, p) == Peek(m.ram, p) + 256 * Peek(m.ram, (p + 1) % 256)

(* C32: IndirectX and IndirectY read their 16-bit pointer from the         *)
(* zero-page bytes p and (p + 1) mod 256 (p = 0xFF takes the high byte     *)
(* from 0x0000, and the instruction does not abort), and ZeroPageX and     *)
(* ZeroPageY address the zero-page byte (operand + index) mod 256: for     *)
(* LDA and CMP (operand,X), LDA and CMP (operand),Y, LDA and STA           *)
(* operand,X and LDX operand,Y with the data in RAM.                       *)
C32_ZeroPagePointerWraps ==
    /\ (last.op = "cpu" /\ last.opcode \in {\hA1, \hC1}) =>
           LET p == (ArgB + last.pre.reg.x) % 256
               e == ZeroPagePointer(last.pre, p)
           IN  e < \h2000 =>
                   /\ ~panicked
                   /\ last.opcode = \hA1 => reg.a = Peek(last.pre.ram, e % \h0800)
    /\ (last.op = "cpu" /\ last.opcode \in {\hB1, \hD1}) =>
           LET e == (ZeroPagePointer(last.pre, ArgB) + last.pre.reg.y) % 65536
           IN  e < \h2000 =>
                   /\ ~panicked
                   /\ last.opcode = \hB1 => reg.a = Peek(last.pre.ram, e % \h0800)
    /\ (last.op = "cpu" /\ last.opcode \in {\hB5, \h95, \hB6}) =>
           LET ex == (ArgB + last.pre.reg.x) % 256
               ey == (ArgB + last.pre.reg.y) % 256
           IN  /\ ~panicked
               /\ last.opcode = \hB5 => reg.a = Peek(last.pre.ram, ex)
               /\ last.opcode = \h95 =>
                      ram = Poke(last.pre.ram, ex, last.pre.reg.a)
               /\ last.opcode = \hB6 => reg.x = Peek(last.pre.ram, ey)

(* C32: in a build that checks overflow, LDA (operand,X) with the pointer  *)
(* at 0xFF and 0x00 has aborted.                                           *)
C32_PointerAtTopAborted ==
    /\ last.op = "cpu"
    /\ last.opcode = \hA1
    /\ (ArgB + last.pre.reg.x) % 256 = \hFF
    /\ ZeroPagePointer(last.pre, \hFF) = \h0234
    /\ overflow_checks
    /\ panicked

(* What the pointer fetch does: it wraps where the build does not check    *)
(* overflow, and aborts at p = 0xFF where it does.                         *)
ZeroPagePointerWrapsUnchecked ==
    (last.op = "cpu" /\ last.opcode \in {\hA1, \hC1, \hB1, \hD1}) =>
        LET p == IF last.opcode \in {\hA1, \hC1}
                 THEN (ArgB + last.pre.reg.x) % 256 ELSE ArgB
            e == (ZeroPagePointer(last.pre, p)
                    + (IF last.opcode \in {\hB1, \hD1} THEN last.pre.reg.y
                       ELSE 0)) % 65536
        IN  /\ panicked <=> (overflow_checks /\ p = \hFF)
            /\ (~panicked /\ last.opcode \in {\hA1, \hB1}) =>
                   reg.a = Peek(last.pre.ram, e % \h0800)

(* The operand's address and the result of a read-modify-write opcode, by  *)
(* the 6502's definition of its mode and operation.                        *)
RmwAddress(opcode) ==
    LET am == Decode(opcode)[2]
    IN  CASE am = "ZeroPage" -> ArgB
          [] am = "ZeroPageX" -> (ArgB + last.pre.reg.x) % 256
          [] am = "Absolute" -> ArgW
          [] am = "AbsoluteX" -> (ArgW + last.pre.reg.x) % 65536

RmwResult(opcode, val, carry) ==
    LET mn == Decode(opcode)[1]
    IN  CASE mn = "asl" -> (2 * val) % 256
          [] mn = "lsr" -> val \div 2
          [] mn = "rol" -> ((2 * val) % 256) + carry
          [] mn = "ror" -> (val \div 2) + 128 * carry
          [] mn = "inc" -> (val + 1) % 256
          [] mn = "dec" -> (val + 255) % 256

OperandSize(opcode) ==
    IF Decode(opcode)[2] \in {"Absolute", "AbsoluteX"} THEN 2 ELSE 1

(* C33: ASL, LSR, ROL, ROR, INC and DEC in the ZeroPage, ZeroPageX,        *)
(* Absolute and AbsoluteX modes, on an operand in RAM, complete in one     *)
(* tick that reads the operand at its effective address E, writes the      *)
(* result to the same E and to no other byte, and leaves PC at the opcode  *)
(* address + 1 + operand size.                                             *)
C33_ReadModifyWriteInPlace ==
    (last.op = "cpu" /\ last.opcode \in RmwOpcodes
         /\ RmwAddress(last.opcode) < \h2000) =>
        LET e == RmwAddress(last.opcode) % \h0800
        IN  /\ ~panicked
            /\ ram = Poke(last.pre.ram, e,
                          RmwResult(last.opcode, Peek(last.pre.ram, e), CarryIn))
            /\ reg.pc = last.pre.reg.pc + 1 + OperandSize(last.opcode)

(* C33: ROR $FFFF,X with X = 1 has run on the byte 0x01 at 0x0000 with the *)
(* carry set: the byte is 0x80 and PC is three past the opcode.            *)
C33_RotatedInPlaceAcrossWrap ==
    /\ Done(\h7E)
    /\ ArgW = \hFFFF
    /\ last.pre.reg.x = \h01
    /\ Peek(last.pre.ram, \h0000) = \h01
    /\ CarryIn = 1
    /\ Peek(ram, \h0000) = \h80
    /\ reg.pc = last.pre.reg.pc + 3

(* The cycles column of the handlers' doc-comment tables, for the opcodes  *)
(* whose handlers the model holds.                                         *)
DocOpcodes ==
    {\h00, \h06, \h08, \h0A, \h0E, \h16, \h18, \h1E, \h20, \h26, \h28,
     \h2A, \h2E, \h36, \h38, \h3E, \h40, \h46, \h48, \h4A, \h4C, \h4E,
     \h56, \h58, \h5E, \h60, \h61, \h65, \h66, \h68, \h69, \h6A, \h6C,
     \h6D, \h6E, \h71, \h75, \h76, \h78, \h79, \h7D, \h7E, \h81, \h84,
     \h85, \h8C, \h8D, \h91, \h94, \h95, \h99, \h9A, \h9D, \hA0, \hA1,
     \hA2, \hA4, \hA5, \hA6, \hA9, \hAC, \hAD, \hAE, \hB1, \hB4, \hB5,
     \hB6, \hB8, \hB9, \hBC, \hBD, \hBE, \hC1, \hC5, \hC6, \hC9, \hCD,
     \hCE, \hD1, \hD5, \hD6, \hD8, \hD9, \hDD, \hDE, \hE1, \hE5, \hE6,
     \hE9, \hEA, \hED, \hEE, \hF1, \hF5, \hF6, \hF8, \hF9, \hFD, \hFE}

DocCycles(opcode) ==
    CASE opcode \in {\h0A, \h18, \h2A, \h38, \h4A, \h58, \h69, \h6A, \h78, \h9A,
                       \hA0, \hA2, \hA9, \hB8, \hC9, \hD8, \hE9, \hEA, \hF8} -> 2
      [] opcode \in {\h08, \h48, \h4C, \h65, \h84, \h85, \hA4, \hA5, \hA6, \hC5,
                       \hE5} -> 3
      [] opcode \in {\h28, \h68, \h6D, \h75, \h79, \h7D, \h8C, \h8D, \h94, \h95,
                       \hAC, \hAD, \hAE, \hB4, \hB5, \hB6, \hB9, \hBC, \hBD, \hBE,
                       \hCD, \hD5, \hD9, \hDD, \hED, \hF5, \hF9, \hFD} -> 4
      [] opcode \in {\h06, \h26, \h46, \h66, \h6C, \h71, \h99, \h9D, \hB1, \hC6,
                       \hD1, \hE6, \hF1} -> 5
      [] opcode \in {\h0E, \h16, \h20, \h2E, \h36, \h40, \h4E, \h56, \h60, \h61,
                       \h6E, \h76, \h81, \h91, \hA1, \hC1, \hCE, \hD6, \hE1, \hEE,
                       \hF6} -> 6
      [] opcode \in {\h00, \h1E, \h3E, \h5E, \h7E, \hDE, \hFE} -> 7

(* C34: for every supported opcode, tick returns the base cycle count of   *)
(* the handler's doc-comment table: for each handler applied in every      *)
(* reachable state, and for every instruction that has run.                *)
C34_TickReturnsDocumentedCycles ==
    /\ \A opcode \in DocOpcodes :
           LET r == Execute([Cur EXCEPT !.reg.pc = (@ + 1) % 65536],
                            Decode(opcode))
           IN  ~r.m.panic => r.v = DocCycles(opcode)
    /\ (last.op = "cpu" /\ ~panicked /\ last.opcode \in DocOpcodes) =>
           tick(last.pre).v = DocCycles(last.opcode)

(* C34: STY $10 has run and tick returned 2; the table says 3.             *)
C34_StyZeroPageReturnedTwo ==
    /\ Done(\h84)
    /\ ArgB = \h10
    /\ Peek(ram, \h10) = last.pre.reg.y
    /\ tick(last.pre).v = 2
    /\ DocCycles(\h84) = 3

(* What tick returns: the documented count for every opcode but STY        *)
(* zeropage (2) and CMP (indirect),Y (7).                                  *)
TickReturnsDocumentedCyclesButTwo ==
    \A opcode \in DocOpcodes :
        LET r == Execute([Cur EXCEPT !.reg.pc = (@ + 1) % 65536],
                         Decode(opcode))
        IN  ~r.m.panic =>
                r.v = CASE opcode = \h84 -> 2
                        [] opcode = \hD1 -> 7
                        [] OTHER -> DocCycles(opcode)

====
